---------------------------- MODULE Spec2Model ----------------------------
(***************************************************************************)
(* Verification model of the utility library: the collection helpers of   *)
(* src/src/collections.py (OrderedSet, flatten, chunk, unique, deep_merge, *)
(* partition, group_by), the validators of src/src/validators.py, the     *)
(* string functions of src/src/strings.py and the HTTP client of          *)
(* src/src/http_client.py.                                                 *)
(*                                                                         *)
(* A Python dict is modelled by what the program can observe of it: the   *)
(* sequence of its keys in insertion order (plus the values where they    *)
(* matter).  A Python list is a TLA+ sequence.                             *)
(***************************************************************************)
EXTENDS Integers, Sequences, FiniteSets, TLC

VARIABLES
    items,      \* OrderedSet.items: the keys of the dict, in dict order
    last,       \* the latest OrderedSet operation: its name, argument, result
    lastIter,   \* result of the latest iteration not yet followed by a membership change
    contained,  \* history: the elements the set holds, by set semantics
    addedAt,    \* history: per element, the time it was last added while absent
    clock,      \* history: number of membership-adding operations so far
    removed,    \* history: elements that were discarded and are still absent
    call,       \* a call of a module-level function: its name and arguments
    result,     \* what the call returned, once it has returned
    gen,        \* the generator object a chunk call returns, and what it did so far
    heap,       \* the dict objects in memory: heap[id] is the dict with identity id
    heap0,      \* history: the heap as it was when deep_merge was called
    client,     \* an HttpClient: its base_url, default_headers and timeout
    http,       \* one call of HttpClient.request: its arguments, position and outcome
    default_client  \* the module's _default_client

setVars == <<items, last, lastIter, contained, addedAt, clock, removed>>

callVars == <<call, result>>

heapVars == <<heap, heap0>>

httpVars == <<client, http, default_client>>

vars == <<items, last, lastIter, contained, addedAt, clock, removed, call, result, gen,
          heap, heap0, client, http, default_client>>

-----------------------------------------------------------------------------
(* Bounds *)

NumElems == 3
MaxInitLen == 2
MaxClock == 4
MaxLen == 3
MaxSize == 3
MaxNodes == 4
MaxDepth == 3
MaxEntries == 5

Elems == 1..NumElems

None == [none |-> TRUE]

NoIter == [valid |-> FALSE, seq |-> <<>>]

SeqsUpTo(S, n) == UNION {[1..k -> S] : k \in 0..n}

Range(s) == {s[i] : i \in 1..Len(s)}

-----------------------------------------------------------------------------
(* OrderedSet *)

\* A faulty add that moves an element already present to the end.
add_moveToEnd(its, value) ==
    Append(SelectSeq(its, LAMBDA e : e # value), value)

\* self.items[value] = None : a dict keeps the position of a key it already
\* holds and appends a new key at the end.
add(its, value) ==
    IF \E i \in 1..Len(its) : its[i] = value THEN its ELSE Append(its, value)

\* A faulty discard that removes the most recently inserted element.
discard_popLast(its, value) ==
    IF Len(its) = 0 THEN its ELSE SubSeq(its, 1, Len(its) - 1)

\* self.items.pop(value, None)
discard(its, value) == SelectSeq(its, LAMBDA e : e # value)

contains(its, value) == \E i \in 1..Len(its) : its[i] = value

iter(its) == its

len(its) == Len(its)

RECURSIVE OrderedSetFrom(_, _)
\* __init__ : for item in iterable: self.add(item)
OrderedSetFrom(its, iterable) ==
    IF iterable = <<>> THEN its
    ELSE OrderedSetFrom(add(its, Head(iterable)), Tail(iterable))

OrderedSet(iterable) == OrderedSetFrom(<<>>, iterable)

\* The values an OrderedSet is compared with: another OrderedSet, a plain set,
\* or a value of another type (a list).
Others ==
    {[kind |-> "OrderedSet", seq |-> s, set |-> {}] : s \in {OrderedSet(x) : x \in SeqsUpTo(Elems, MaxInitLen)}}
    \cup {[kind |-> "set", seq |-> <<>>, set |-> S] : S \in SUBSET Elems}
    \cup {[kind |-> "list", seq |-> s, set |-> {}] : s \in SeqsUpTo(Elems, 1)}

\* A faulty __eq__ that compares two OrderedSets as plain sets.
eq_unordered(its, other) ==
    IF other.kind \in {"OrderedSet", "set"}
    THEN Range(iter(its)) = (IF other.kind = "set" THEN other.set ELSE Range(iter(other.seq)))
    ELSE FALSE

\* __eq__
eq(its, other) ==
    IF other.kind = "OrderedSet" THEN iter(its) = iter(other.seq)
    ELSE IF other.kind = "set" THEN Range(iter(its)) = other.set
    ELSE FALSE

(* History of the membership, kept beside the program state: what a set   *)
(* holds after the same calls, and when each element was last added while *)
(* absent.  It never reads `items`.                                        *)
HistAdd(h, x) ==
    IF x \in h.contained THEN h
    ELSE [contained |-> h.contained \cup {x},
          addedAt   |-> [h.addedAt EXCEPT ![x] = h.clock + 1],
          clock     |-> h.clock + 1]

RECURSIVE HistFrom(_, _)
HistFrom(h, iterable) ==
    IF iterable = <<>> THEN h
    ELSE HistFrom(HistAdd(h, Head(iterable)), Tail(iterable))

Hist0 == [contained |-> {}, addedAt |-> [e \in Elems |-> 0], clock |-> 0]

\* No dict object exists.
NoHeap == heap = <<>> /\ heap0 = <<>>

\* No HttpClient exists and no request is under way.
NoHttp ==
    /\ client = [made |-> FALSE]
    /\ http = [pc |-> "none"]
    /\ default_client = [made |-> FALSE]

\* No generator exists.
NoGen ==
    gen = [pc |-> "none", iterable |-> <<>>, size |-> 0, taken |-> 0, items |-> <<>>,
           i |-> 0, requests |-> 0, yielded |-> <<>>, error |-> "none"]

\* No function call is in progress.
NoCall == call = [fn |-> "none"] /\ result = [done |-> FALSE] /\ NoGen /\ NoHeap /\ NoHttp

SetInit ==
    /\ NoCall
    /\ \E xs \in SeqsUpTo(Elems, MaxInitLen) :
        /\ items = OrderedSet(xs)
        /\ last = [op |-> "init", arg |-> 0, ret |-> None, changed |-> FALSE, readded |-> FALSE]
        /\ lastIter = NoIter
        /\ contained = HistFrom(Hist0, xs).contained
        /\ addedAt = HistFrom(Hist0, xs).addedAt
        /\ clock = HistFrom(Hist0, xs).clock
        /\ removed = {}

Add(x) ==
    /\ UNCHANGED <<heapVars, httpVars, callVars, gen>>
    /\ x \in contained \/ clock < MaxClock
    /\ items' = add(items, x)
    /\ last' = [op |-> "add", arg |-> x, ret |-> None, changed |-> x \notin contained,
                readded |-> x \in removed]
    /\ lastIter' = IF x \in contained THEN lastIter ELSE NoIter
    /\ LET h == HistAdd([contained |-> contained, addedAt |-> addedAt, clock |-> clock], x)
       IN  /\ contained' = h.contained
           /\ addedAt' = h.addedAt
           /\ clock' = h.clock
    /\ removed' = removed \ {x}

Discard(x) ==
    /\ UNCHANGED <<heapVars, httpVars, callVars, gen>>
    /\ items' = discard(items, x)
    /\ last' = [op |-> "discard", arg |-> x, ret |-> None, changed |-> x \in contained,
                readded |-> FALSE]
    /\ lastIter' = IF x \in contained THEN NoIter ELSE lastIter
    /\ contained' = contained \ {x}
    /\ addedAt' = [addedAt EXCEPT ![x] = 0]
    /\ removed' = IF x \in contained THEN removed \cup {x} ELSE removed
    /\ UNCHANGED clock

Contains(x) ==
    /\ UNCHANGED <<heapVars, httpVars, callVars, gen>>
    /\ last' = [op |-> "contains", arg |-> x, ret |-> contains(items, x), changed |-> FALSE, readded |-> FALSE]
    /\ UNCHANGED <<items, lastIter, contained, addedAt, clock, removed>>

LenOp ==
    /\ UNCHANGED <<heapVars, httpVars, callVars, gen>>
    /\ last' = [op |-> "len", arg |-> 0, ret |-> len(items), changed |-> FALSE, readded |-> FALSE]
    /\ UNCHANGED <<items, lastIter, contained, addedAt, clock, removed>>

IterOp ==
    /\ UNCHANGED <<heapVars, httpVars, callVars, gen>>
    /\ last' = [op |-> "iter", arg |-> 0, ret |-> iter(items), changed |-> FALSE, readded |-> FALSE]
    /\ lastIter' = [valid |-> TRUE, seq |-> iter(items)]
    /\ UNCHANGED <<items, contained, addedAt, clock, removed>>

EqOp(other) ==
    /\ UNCHANGED <<heapVars, httpVars, callVars, gen>>
    /\ last' = [op |-> "eq", arg |-> other, ret |-> eq(items, other), changed |-> FALSE, readded |-> FALSE]
    /\ UNCHANGED <<items, lastIter, contained, addedAt, clock, removed>>

SetNext ==
    \/ \E x \in Elems : Add(x)
    \/ \E x \in Elems : Discard(x)
    \/ \E x \in Elems : Contains(x)
    \/ LenOp
    \/ IterOp
    \/ \E other \in Others : EqOp(other)

SpecSet == SetInit /\ [][SetNext]_vars

-----------------------------------------------------------------------------
(* C1: after any add/discard sequence, iteration yields exactly the        *)
(* contained elements, each once, ordered by the time each was last added  *)
(* while absent; an element re-added after a discard is last.              *)
C1_IterationOrder ==
    /\ Range(iter(items)) = contained
    /\ \A i, j \in 1..Len(iter(items)) :
          i < j => /\ iter(items)[i] # iter(items)[j]
                   /\ addedAt[iter(items)[i]] < addedAt[iter(items)[j]]
    /\ (last.op = "add" /\ last.changed) =>
          (items # <<>> /\ iter(items)[Len(items)] = last.arg)

C1_Witness ==
    /\ last.op = "add" /\ last.readded
    /\ Len(items) = 3
    /\ iter(items)[3] = last.arg

(* C2: add of a present element, discard of an absent one and the          *)
(* read-only operations leave contents and order unchanged; two iterations *)
(* with no membership change between them yield the same sequence.         *)
C2_NoOpFrame ==
    [][ /\ (~last'.changed) => items' = items
        /\ (last'.op = "iter" /\ lastIter.valid) => last'.ret = lastIter.seq
      ]_vars

\* An add of a present element has just acted on a set that was iterated before.
C2_Witness ==
    /\ last.op = "add" /\ ~last.changed
    /\ Len(items) = 2 /\ items[1] = last.arg
    /\ lastIter.valid /\ lastIter.seq = items

-----------------------------------------------------------------------------
(* unique and partition *)

\* No OrderedSet has been constructed.
NoSet ==
    /\ items = <<>>
    /\ last = [op |-> "none", arg |-> 0, ret |-> None, changed |-> FALSE, readded |-> FALSE]
    /\ lastIter = NoIter
    /\ contained = {}
    /\ addedAt = [e \in Elems |-> 0]
    /\ clock = 0
    /\ removed = {}

\* Key functions: key_func=None, or a function from the items to two keys.
NoKeyFunc == [given |-> FALSE, f |-> [e \in Elems |-> 0]]

KeyFuncs == {NoKeyFunc} \cup {[given |-> TRUE, f |-> g] : g \in [Elems -> 0..1]}

\* key_func(item) if key_func else item
KeyOf(key_func, item) == IF key_func.given THEN key_func.f[item] ELSE item

RECURSIVE unique_loop(_, _, _, _)
\* for item in iterable: ... if key not in seen: seen.add(key); result.append(item)
unique_loop(seen, res, rest, key_func) ==
    IF rest = <<>> THEN res
    ELSE LET item == Head(rest)
             key  == KeyOf(key_func, item)
         IN  IF key \notin seen
             THEN unique_loop(seen \cup {key}, Append(res, item), Tail(rest), key_func)
             ELSE unique_loop(seen, res, Tail(rest), key_func)

\* A faulty unique that forgets to record the keys it has seen.
unique_noSeen(iterable, key_func) == iterable

unique(iterable, key_func) == unique_loop({}, <<>>, iterable, key_func)

UniqueInit ==
    /\ NoSet
    /\ \E xs \in SeqsUpTo(Elems, MaxLen), kf \in KeyFuncs :
          call = [fn |-> "unique", xs |-> xs, key_func |-> kf]
    /\ result = [done |-> FALSE]
    /\ NoGen
    /\ NoHeap
    /\ NoHttp

CallUnique ==
    /\ call.fn = "unique" /\ ~result.done
    /\ result' = [done |-> TRUE, val |-> unique(call.xs, call.key_func)]
    /\ UNCHANGED <<heapVars, httpVars, call, setVars, gen>>

\* list(OrderedSet(xs)) on the same xs
MakeOrderedSet ==
    /\ call.fn = "unique" /\ last.op = "none"
    /\ items' = OrderedSet(call.xs)
    /\ last' = [op |-> "list", arg |-> 0, ret |-> iter(OrderedSet(call.xs)),
                changed |-> FALSE, readded |-> FALSE]
    /\ contained' = HistFrom(Hist0, call.xs).contained
    /\ addedAt' = HistFrom(Hist0, call.xs).addedAt
    /\ clock' = HistFrom(Hist0, call.xs).clock
    /\ UNCHANGED <<heapVars, httpVars, lastIter, removed, callVars, gen>>

UniqueNext == CallUnique \/ MakeOrderedSet

SpecUnique == UniqueInit /\ [][UniqueNext]_vars

\* The items of xs at the positions in I, in order.
SubseqAt(xs, I) ==
    LET F[n \in 0..Len(xs)] ==
            IF n = 0 THEN <<>>
            ELSE IF n \in I THEN Append(F[n - 1], xs[n]) ELSE F[n - 1]
    IN  F[Len(xs)]

\* The positions of xs that hold the first item with their key.
FirstPositions(xs, key_func) ==
    {i \in 1..Len(xs) :
        \A j \in 1..(i - 1) : KeyOf(key_func, xs[j]) # KeyOf(key_func, xs[i])}

(* C3: unique(xs) and list(OrderedSet(xs)) are equal and are xs with every *)
(* occurrence after the first removed; with a key function unique keeps    *)
(* exactly the first item of each key, in input order.                     *)
C3_UniqueFirstOccurrence ==
    /\ (call.fn = "unique" /\ result.done) =>
          result.val = SubseqAt(call.xs, FirstPositions(call.xs, call.key_func))
    /\ (call.fn = "unique" /\ last.op = "list") =>
          last.ret = SubseqAt(call.xs, FirstPositions(call.xs, NoKeyFunc))
    /\ (call.fn = "unique" /\ result.done /\ last.op = "list" /\ ~call.key_func.given) =>
          result.val = last.ret

C3_Witness ==
    /\ call.fn = "unique" /\ result.done /\ last.op = "list"
    /\ ~call.key_func.given
    /\ call.xs = <<3, 1, 3>>
    /\ result.val = <<3, 1>>

\* A faulty partition that puts every item also in the second list.
partition_allFalse(iterable, predicate) ==
    <<SelectSeq(iterable, LAMBDA e : e \in predicate), iterable>>

RECURSIVE partition_loop(_, _, _, _)
\* for item in iterable: if predicate(item): true_items.append(item)
\*                       else: false_items.append(item)
partition_loop(true_items, false_items, rest, predicate) ==
    IF rest = <<>> THEN <<true_items, false_items>>
    ELSE IF Head(rest) \in predicate
         THEN partition_loop(Append(true_items, Head(rest)), false_items, Tail(rest), predicate)
         ELSE partition_loop(true_items, Append(false_items, Head(rest)), Tail(rest), predicate)

\* A predicate is modelled by the set of items it holds of.
partition(iterable, predicate) == partition_loop(<<>>, <<>>, iterable, predicate)

PartitionInit ==
    /\ NoSet
    /\ \E xs \in SeqsUpTo(Elems, MaxLen), p \in SUBSET Elems :
          call = [fn |-> "partition", xs |-> xs, predicate |-> p]
    /\ result = [done |-> FALSE]
    /\ NoGen
    /\ NoHeap
    /\ NoHttp

CallPartition ==
    /\ call.fn = "partition" /\ ~result.done
    /\ result' = [done |-> TRUE, val |-> partition(call.xs, call.predicate)]
    /\ UNCHANGED <<heapVars, httpVars, call, setVars, gen>>

PartitionNext == CallPartition

SpecPartition == PartitionInit /\ [][PartitionNext]_vars

\* How many positions of xs hold e.
Count(xs, e) == Cardinality({i \in 1..Len(xs) : xs[i] = e})

(* C10: partition(xs, p) = (t, f): t is the subsequence of xs satisfying   *)
(* p, f the subsequence of the rest, each in input order; the lengths add  *)
(* up to len(xs) and t followed by f is a permutation of xs.               *)
C10_PartitionSplits ==
    (call.fn = "partition" /\ result.done) =>
        LET t == result.val[1]
            f == result.val[2]
        IN  /\ t = SubseqAt(call.xs, {i \in 1..Len(call.xs) : call.xs[i] \in call.predicate})
            /\ f = SubseqAt(call.xs, {i \in 1..Len(call.xs) : call.xs[i] \notin call.predicate})
            /\ Len(t) + Len(f) = Len(call.xs)
            /\ \A e \in Elems : Count(t \o f, e) = Count(call.xs, e)

C10_Witness ==
    /\ call.fn = "partition" /\ result.done
    /\ call.xs = <<1, 2, 1>>
    /\ result.val = <<<<2>>, <<1, 1>>>>

-----------------------------------------------------------------------------
(* chunk *)

Min(a, b) == IF a < b THEN a ELSE b

\* A faulty slice that stops one item early.
slice_offByOne(its, start, stop) == SubSeq(its, start + 1, Min(stop, Len(its)) - 1)

\* its[start:stop] for 0 <= start <= stop
slice(its, start, stop) == SubSeq(its, start + 1, Min(stop, Len(its)))

\* chunk contains a yield: calling it runs none of its body and returns a
\* generator object positioned before the first statement.
chunk(iterable, size) ==
    [pc |-> "created", iterable |-> iterable, size |-> size, taken |-> 0,
     items |-> <<>>, i |-> 0, requests |-> 0, yielded |-> <<>>, error |-> "none"]

\* next(generator): the body runs from where it stands to the next yield,
\* to its end, or to a raise.
chunk_next(g) ==
    LET r == [g EXCEPT !.requests = @ + 1]
    IN  IF g.pc = "created"
        THEN IF g.size < 1
             THEN [r EXCEPT !.pc = "raised", !.error = "ValueError"]
             ELSE \* items = list(iterable); first turn of: for i in range(0, len(items), size)
                  LET its == g.iterable
                  IN  IF 0 < Len(its)
                      THEN [r EXCEPT !.pc = "suspended", !.items = its, !.taken = Len(its),
                                     !.i = 0,
                                     !.yielded = Append(@, slice(its, 0, 0 + g.size))]
                      ELSE [r EXCEPT !.pc = "done", !.items = its, !.taken = Len(its)]
        ELSE \* resumed after a yield: the next turn of the for loop
             IF g.i + g.size < Len(g.items)
             THEN [r EXCEPT !.i = g.i + g.size,
                            !.yielded = Append(@, slice(g.items, g.i + g.size,
                                                        g.i + g.size + g.size))]
             ELSE [r EXCEPT !.pc = "done"]

ChunkInit ==
    /\ NoSet
    /\ \E xs \in SeqsUpTo(Elems, MaxLen), size \in (-1)..MaxSize :
          call = [fn |-> "chunk", iterable |-> xs, size |-> size]
    /\ result = [done |-> FALSE]
    /\ NoGen
    /\ NoHeap
    /\ NoHttp

\* g = chunk(iterable, size)
CallChunk ==
    /\ call.fn = "chunk" /\ gen.pc = "none"
    /\ gen' = chunk(call.iterable, call.size)
    /\ UNCHANGED <<heapVars, httpVars, callVars, setVars>>

\* next(g), as list(g) or a for loop does until the generator ends
NextChunk ==
    /\ gen.pc \in {"created", "suspended"}
    /\ gen' = chunk_next(gen)
    /\ UNCHANGED <<heapVars, httpVars, callVars, setVars>>

ChunkNext == CallChunk \/ NextChunk

SpecChunk == ChunkInit /\ [][ChunkNext]_vars

RECURSIVE Concat(_)
Concat(groups) == IF groups = <<>> THEN <<>> ELSE Head(groups) \o Concat(Tail(groups))

CeilDiv(n, d) == (n + d - 1) \div d

(* C4: for size >= 1 a fully consumed chunk(seq, size) has yielded         *)
(* ceil(n/size) groups, each of exactly size items except possibly the     *)
(* last (1..size items), whose concatenation is seq; none for an empty seq.*)
C4_ChunkGroups ==
    (call.fn = "chunk" /\ call.size >= 1 /\ gen.pc = "done") =>
        LET n == Len(call.iterable)
            k == Len(gen.yielded)
        IN  /\ k = CeilDiv(n, call.size)
            /\ \A j \in 1..(k - 1) : Len(gen.yielded[j]) = call.size
            /\ k > 0 => Len(gen.yielded[k]) \in 1..call.size
            /\ Concat(gen.yielded) = call.iterable
            /\ n = 0 => gen.yielded = <<>>

C4_Witness ==
    /\ call.fn = "chunk" /\ gen.pc = "done"
    /\ call.size = 2 /\ call.iterable = <<1, 2, 3>>
    /\ gen.yielded = <<<<1, 2>>, <<3>>>>

(* C5: chunk(iterable, size) with size < 1 fails with ValueError at the    *)
(* chunk call itself: once the call has returned control, the error has    *)
(* been raised, no group was requested and no item was consumed.           *)
C5_FailsAtCall ==
    (call.fn = "chunk" /\ call.size < 1 /\ gen.pc # "none") =>
        /\ gen.error = "ValueError"
        /\ gen.requests = 0
        /\ gen.taken = 0

-----------------------------------------------------------------------------
(* flatten *)

(* A Python value: its type, a number telling values of a type apart, and *)
(* the items that iterating over it yields (none for an int, the          *)
(* characters for a str, the byte values for bytes, the keys for a dict). *)
IntV(k) == [t |-> "int", n |-> k, kids |-> <<>>]

CharV(k) == [t |-> "str", n |-> k, kids |-> <<>>]

StrV == [t |-> "str", n |-> 0, kids |-> <<CharV(1), CharV(2)>>]

BytesV == [t |-> "bytes", n |-> 0, kids |-> <<IntV(8), IntV(9)>>]

DictV == [t |-> "dict", n |-> 0, kids |-> <<CharV(3)>>]

ListV(kids) == [t |-> "list", n |-> 0, kids |-> kids]

Leaves == {IntV(1), StrV, BytesV, DictV}

\* The lists of values with n nodes in all, and the values with n nodes.
RECURSIVE Forests(_), Values(_)
Forests(n) ==
    IF n = 0 THEN {<<>>}
    ELSE UNION {{<<v>> \o f : v \in Values(k), f \in Forests(n - k)} : k \in 1..n}

Values(n) ==
    IF n = 1 THEN Leaves \cup {ListV(<<>>)}
    ELSE {ListV(f) : f \in Forests(n - 1)}

Nested(n) == UNION {Forests(k) : k \in 0..n}

\* A faulty test that expands strings.
atomic_noStr(item) == item.t \in {"bytes", "dict"}

\* isinstance(item, (str, bytes, dict))
atomic(item) == item.t \in {"str", "bytes", "dict"}

\* A faulty test that expands only for a positive depth.
expands_positive(item, depth) == item.t \in {"list", "str", "bytes", "dict"} /\ depth > 0

\* hasattr(item, '__iter__') and depth != 0
expands(item, depth) == item.t \in {"list", "str", "bytes", "dict"} /\ depth # 0

\* A faulty depth that is not counted down.
new_depth_keep(depth) == depth

\* new_depth = depth - 1 if depth > 0 else -1
new_depth(depth) == IF depth > 0 THEN depth - 1 ELSE -1

RECURSIVE flatten(_, _)
\* for item in iterable: append the item, or extend by the flattened item
flatten(iterable, depth) ==
    IF iterable = <<>> THEN <<>>
    ELSE LET item == Head(iterable)
             part == IF atomic(item) THEN <<item>>
                     ELSE IF expands(item, depth)
                          THEN flatten(item.kids, new_depth(depth))
                          ELSE <<item>>
         IN  part \o flatten(Tail(iterable), depth)

FlattenInit ==
    /\ NoSet
    /\ \E xs \in Nested(MaxNodes), depth \in (-2)..MaxDepth :
          call = [fn |-> "flatten", xs |-> xs, depth |-> depth]
    /\ result = [done |-> FALSE]
    /\ NoGen
    /\ NoHeap
    /\ NoHttp

CallFlatten ==
    /\ call.fn = "flatten" /\ ~result.done
    /\ result' = [done |-> TRUE, val |-> flatten(call.xs, call.depth),
                  twice |-> FALSE, val2 |-> <<>>]
    /\ UNCHANGED <<heapVars, httpVars, call, setVars, gen>>

\* flatten(r, -1) on the result r of an unlimited flatten
FlattenAgain ==
    /\ call.fn = "flatten" /\ result.done /\ ~result.twice /\ call.depth < 0
    /\ result' = [result EXCEPT !.twice = TRUE, !.val2 = flatten(result.val, -1)]
    /\ UNCHANGED <<heapVars, httpVars, call, setVars, gen>>

FlattenNext == CallFlatten \/ FlattenAgain

SpecFlatten == FlattenInit /\ [][FlattenNext]_vars

RECURSIVE LeafLevels(_, _)
\* The values of xs that are not lists, left to right and depth first, each
\* with its nesting level (k for the items of xs itself).
LeafLevels(xs, k) ==
    IF xs = <<>> THEN <<>>
    ELSE (IF Head(xs).t = "list" THEN LeafLevels(Head(xs).kids, k + 1)
          ELSE <<[v |-> Head(xs), lvl |-> k]>>)
         \o LeafLevels(Tail(xs), k)

LeafValues(xs) == [i \in 1..Len(LeafLevels(xs, 0)) |-> LeafLevels(xs, 0)[i].v]

Max(a, b) == IF a > b THEN a ELSE b

(* C8: flatten(xs, 0) is the list of the items of xs unchanged; every      *)
(* negative depth flattens completely; flatten at unlimited depth is       *)
(* idempotent: flatten(flatten(xs, -1), -1) = flatten(xs, -1).             *)
C8_FlattenZeroAndUnlimited ==
    /\ (call.fn = "flatten" /\ result.done /\ call.depth = 0) =>
          result.val = call.xs
    /\ (call.fn = "flatten" /\ result.done /\ call.depth < 0) =>
          result.val = LeafValues(call.xs)
    /\ (call.fn = "flatten" /\ result.done /\ result.twice) =>
          result.val2 = result.val

C8_Witness ==
    /\ call.fn = "flatten" /\ result.done /\ result.twice
    /\ call.depth = -2
    /\ call.xs = <<ListV(<<ListV(<<IntV(1)>>)>>), StrV>>
    /\ result.val2 = <<IntV(1), StrV>>

(* C9: for d >= 0, flatten(xs, d) removes exactly d levels: a leaf nested  *)
(* k levels deep ends at level max(0, k - d), leaves keep their order and  *)
(* none is lost or duplicated; at any depth str, bytes and dict values     *)
(* are never expanded and appear as single elements.                       *)
C9_FlattenLevels ==
    (call.fn = "flatten" /\ result.done) =>
        LET before == LeafLevels(call.xs, 0)
            after  == LeafLevels(result.val, 0)
        IN  /\ LeafValues(result.val) = LeafValues(call.xs)
            /\ call.depth >= 0 =>
                  after = [i \in 1..Len(before) |->
                              [v |-> before[i].v, lvl |-> Max(0, before[i].lvl - call.depth)]]

C9_Witness ==
    /\ call.fn = "flatten" /\ result.done
    /\ call.depth = 1
    /\ call.xs = <<ListV(<<ListV(<<StrV>>), IntV(1)>>)>>
    /\ result.val = <<ListV(<<StrV>>), IntV(1)>>

-----------------------------------------------------------------------------
(* deep_merge *)

(* A dict object maps some of the keys to values.  A value is an int, a   *)
(* list (held whole) or a reference to a dict object of the heap.         *)
Keys == {"x", "y"}

\* The order in which a dict yields its keys.
KeySeq == <<"x", "y">>

MInt(k) == [t |-> "int", n |-> k, seq |-> <<>>, ref |-> 0]

MList(xs) == [t |-> "list", n |-> 0, seq |-> xs, ref |-> 0]

MDict(id) == [t |-> "dict", n |-> 0, seq |-> <<>>, ref |-> id]

\* d[key] = value on a dict value d
Put(d, key, value) ==
    [k \in (DOMAIN d) \cup {key} |-> IF k = key THEN value ELSE d[k]]

\* A faulty test that never recurses (dict.update semantics).
both_dicts_never(h, r, key, value) == FALSE

\* key in result and isinstance(result[key], dict) and isinstance(value, dict)
both_dicts(h, r, key, value) ==
    /\ key \in DOMAIN h[r]
    /\ h[r][key].t = "dict"
    /\ value.t = "dict"

RECURSIVE deep_merge(_, _, _), merge_items(_, _, _, _)

\* A faulty deep_merge that writes into dict1 instead of a copy of it.
deep_merge_inPlace(h, dict1, dict2) ==
    merge_items(h, dict1, dict2, SelectSeq(KeySeq, LAMBDA k : k \in DOMAIN h[dict2]))

\* result = dict1.copy(), then the loop over dict2.items(); yields the heap
\* after the call and the identity of the returned dict.
deep_merge(h, dict1, dict2) ==
    merge_items(Append(h, h[dict1]), Len(h) + 1, dict2,
                SelectSeq(KeySeq, LAMBDA k : k \in DOMAIN h[dict2]))

\* for key, value in dict2.items(): result[key] = deep_merge(result[key], value)
\* if both are dicts, else result[key] = value
merge_items(h, r, dict2, ks) ==
    IF ks = <<>> THEN [heap |-> h, ref |-> r]
    ELSE LET key   == Head(ks)
             value == h[dict2][key]
         IN  IF both_dicts(h, r, key, value)
             THEN LET m == deep_merge(h, h[r][key].ref, value.ref)
                  IN  merge_items([m.heap EXCEPT ![r] = Put(@, key, MDict(m.ref))],
                                  r, dict2, Tail(ks))
             ELSE merge_items([h EXCEPT ![r] = Put(@, key, value)], r, dict2, Tail(ks))

\* A nested mapping as a value: its leaves and, under `tree`, its nested mappings.
TLeaf(v) == [t |-> v.t, n |-> v.n, seq |-> v.seq, tree |-> <<>>]

TDict(tr) == [t |-> "dict", n |-> 0, seq |-> <<>>, tree |-> tr]

EmptyDict == [k \in {} |-> 0]

RECURSIVE MTrees(_), MVals(_)
\* The nested mappings over Keys with n entries in all, nested ones included.
MTrees(n) ==
    IF n = 0 THEN {EmptyDict}
    ELSE UNION {{[kk \in {k} |-> v] : v \in MVals(n - 1)} : k \in Keys}
         \cup UNION {{[kk \in Keys |-> IF kk = "x" THEN vx ELSE vy] :
                          vx \in MVals(i), vy \in MVals(n - 2 - i)} : i \in 0..(n - 2)}

\* The values that hold m entries: an int or a list (none), or a mapping.
MVals(m) ==
    (IF m = 0 THEN {TLeaf(MInt(1)), TLeaf(MList(<<1, 2>>))} ELSE {})
    \cup {TDict(tr) : tr \in MTrees(m)}

RECURSIVE Alloc(_, _), AllocItems(_, _, _, _)
\* The heap h extended by the dict objects of the nested mapping tr, and the
\* identity of its outermost dict.
Alloc(h, tr) == AllocItems(h, tr, SelectSeq(KeySeq, LAMBDA k : k \in DOMAIN tr), EmptyDict)

AllocItems(h, tr, ks, d) ==
    IF ks = <<>> THEN [heap |-> Append(h, d), ref |-> Len(h) + 1]
    ELSE LET k == Head(ks)
         IN  IF tr[k].t = "dict"
             THEN LET c == Alloc(h, tr[k].tree)
                  IN  AllocItems(c.heap, tr, Tail(ks), Put(d, k, MDict(c.ref)))
             ELSE AllocItems(h, tr, Tail(ks),
                             Put(d, k, [t |-> tr[k].t, n |-> tr[k].n, seq |-> tr[k].seq, ref |-> 0]))

\* The arguments are two nested mappings of at most MaxEntries entries together.
MergeInit ==
    /\ NoSet
    /\ NoGen
    /\ NoHttp
    /\ result = [done |-> FALSE]
    /\ \E i \in 0..MaxEntries : \E j \in 0..(MaxEntries - i) :
          \E ta \in MTrees(i), tb \in MTrees(j) :
              LET a == Alloc(<<>>, ta)
                  b == Alloc(a.heap, tb)
              IN  /\ call = [fn |-> "deep_merge", dict1 |-> a.ref, dict2 |-> b.ref]
                  /\ heap = b.heap
                  /\ heap0 = b.heap

CallDeepMerge ==
    /\ call.fn = "deep_merge" /\ ~result.done
    /\ LET m == deep_merge(heap, call.dict1, call.dict2)
       IN  /\ heap' = m.heap
           /\ result' = [done |-> TRUE, val |-> m.ref]
    /\ heap0' = heap
    /\ UNCHANGED <<call, setVars, gen, httpVars>>

MergeNext == CallDeepMerge

SpecMerge == MergeInit /\ [][MergeNext]_vars

RECURSIVE Tree(_, _)
\* The mapping that dict id of heap h denotes, nested dicts included.
Tree(h, id) ==
    [k \in DOMAIN h[id] |->
        IF h[id][k].t = "dict"
        THEN [t |-> "dict", n |-> 0, seq |-> <<>>, tree |-> Tree(h, h[id][k].ref)]
        ELSE [t |-> h[id][k].t, n |-> h[id][k].n, seq |-> h[id][k].seq, tree |-> <<>>]]

RECURSIVE IsMerge(_, _, _)
\* tr is the merge of the mappings ta and tb.
IsMerge(tr, ta, tb) ==
    /\ DOMAIN tr = (DOMAIN ta) \cup (DOMAIN tb)
    /\ \A k \in DOMAIN tr :
          IF k \notin DOMAIN tb THEN tr[k] = ta[k]
          ELSE IF k \notin DOMAIN ta THEN tr[k] = tb[k]
          ELSE IF ta[k].t = "dict" /\ tb[k].t = "dict"
               THEN tr[k].t = "dict" /\ IsMerge(tr[k].tree, ta[k].tree, tb[k].tree)
               ELSE tr[k] = tb[k]

(* C6: deep_merge(a, b) has the keys of a and of b; a key of a alone has   *)
(* a's value, a key of b alone b's value, a key of both whose values are   *)
(* both mappings the deep_merge of the two, any other key of both b's      *)
(* value whole.                                                            *)
C6_DeepMergeValue ==
    (call.fn = "deep_merge" /\ result.done) =>
        IsMerge(Tree(heap, result.val), Tree(heap0, call.dict1), Tree(heap0, call.dict2))

\* Both arguments hold a mapping under x, and a's list under y meets b's int.
C6_Witness ==
    /\ call.fn = "deep_merge" /\ result.done
    /\ DOMAIN heap0[call.dict1] = Keys /\ DOMAIN heap0[call.dict2] = Keys
    /\ heap0[call.dict1]["x"].t = "dict" /\ heap0[call.dict2]["x"].t = "dict"
    /\ heap0[call.dict1]["y"].t = "list" /\ heap0[call.dict2]["y"].t = "int"
    /\ DOMAIN heap0[heap0[call.dict2]["x"].ref] = {"y"}
    /\ heap[result.val]["y"].t = "int"
    /\ DOMAIN heap[heap[result.val]["x"].ref] = {"y"}

(* C7: deep_merge does not mutate its inputs: after the call a and b and   *)
(* every mapping nested in them hold the keys and values they held before. *)
C7_InputsUnchanged ==
    (call.fn = "deep_merge" /\ result.done) =>
        /\ Len(heap) >= Len(heap0)
        /\ \A id \in 1..Len(heap0) : heap[id] = heap0[id]
        /\ Tree(heap, call.dict1) = Tree(heap0, call.dict1)
        /\ Tree(heap, call.dict2) = Tree(heap0, call.dict2)

\* A recursive merge took place under x and the inputs held entries to lose.
C7_Witness ==
    /\ call.fn = "deep_merge" /\ result.done
    /\ "x" \in DOMAIN heap0[call.dict1] /\ "x" \in DOMAIN heap0[call.dict2]
    /\ heap0[call.dict1]["x"].t = "dict" /\ heap0[call.dict2]["x"].t = "dict"
    /\ DOMAIN heap0[heap0[call.dict1]["x"].ref] = {"x"}
    /\ DOMAIN heap0[heap0[call.dict2]["x"].ref] = {"x", "y"}
    /\ heap[result.val] # heap0[call.dict1]
    /\ Len(heap) = Len(heap0) + 2

-----------------------------------------------------------------------------
(* group_by *)

\* The keys a key function of group_by may produce.
NumKeys == 3

GroupKeys == 0..(NumKeys - 1)

\* The empty dict: its keys in insertion order and the list held under each.
NoGroups == [keys |-> <<>>, lists |-> <<>>]

\* if key not in result: result[key] = []
\* result[key].append(item)
group_by_put(res, key, item) ==
    IF \E i \in 1..Len(res.keys) : res.keys[i] = key
    THEN LET i == CHOOSE i \in 1..Len(res.keys) : res.keys[i] = key
         IN  [res EXCEPT !.lists[i] = Append(@, item)]
    ELSE [keys |-> Append(res.keys, key), lists |-> Append(res.lists, <<item>>)]

RECURSIVE group_by_loop(_, _, _)
\* for item in iterable: key = key_func(item); ...
group_by_loop(res, rest, key_func) ==
    IF rest = <<>> THEN res
    ELSE group_by_loop(group_by_put(res, key_func[Head(rest)], Head(rest)),
                       Tail(rest), key_func)

\* A faulty group_by that starts a new group for every item.
group_by_noLookup(iterable, key_func) ==
    [keys  |-> [i \in 1..Len(iterable) |-> key_func[iterable[i]]],
     lists |-> [i \in 1..Len(iterable) |-> <<iterable[i]>>]]

group_by(iterable, key_func) == group_by_loop(NoGroups, iterable, key_func)

GroupByInit ==
    /\ NoSet
    /\ \E xs \in SeqsUpTo(Elems, MaxLen), kf \in [Elems -> GroupKeys] :
          call = [fn |-> "group_by", xs |-> xs, key_func |-> kf]
    /\ result = [done |-> FALSE]
    /\ NoGen
    /\ NoHeap
    /\ NoHttp

CallGroupBy ==
    /\ call.fn = "group_by" /\ ~result.done
    /\ result' = [done |-> TRUE, val |-> group_by(call.xs, call.key_func)]
    /\ UNCHANGED <<heapVars, httpVars, call, setVars, gen>>

GroupByNext == CallGroupBy

SpecGroupBy == GroupByInit /\ [][GroupByNext]_vars

\* The positions of xs whose item has key k.
PositionsOfKey(xs, key_func, k) == {i \in 1..Len(xs) : key_func[xs[i]] = k}

\* The first position of xs whose item has key k (k occurs).
FirstOfKey(xs, key_func, k) ==
    CHOOSE i \in PositionsOfKey(xs, key_func, k) :
        \A j \in PositionsOfKey(xs, key_func, k) : i <= j

(* C11: group_by(xs, k) holds, for each key that occurs, the subsequence   *)
(* of xs with that key in input order; it has no empty group and no key    *)
(* that does not occur, no key twice, its keys are in order of first       *)
(* occurrence in xs, and every item of xs is in exactly one group.         *)
C11_GroupByGroups ==
    (call.fn = "group_by" /\ result.done) =>
        LET xs == call.xs
            kf == call.key_func
            d  == result.val
            n  == Len(d.keys)
        IN  /\ Len(d.lists) = n
            /\ \A i, j \in 1..n : d.keys[i] = d.keys[j] => i = j
            /\ Range(d.keys) = {kf[xs[i]] : i \in 1..Len(xs)}
            /\ \A i \in 1..n :
                  /\ d.lists[i] = SubseqAt(xs, PositionsOfKey(xs, kf, d.keys[i]))
                  /\ d.lists[i] # <<>>
            /\ \A i, j \in 1..n :
                  i < j => FirstOfKey(xs, kf, d.keys[i]) < FirstOfKey(xs, kf, d.keys[j])
            /\ \A e \in Elems :
                  /\ Count(xs, e) = Count(Concat(d.lists), e)
                  /\ Count(xs, e) > 0 =>
                        Cardinality({i \in 1..n : e \in Range(d.lists[i])}) = 1

\* Three items with two keys, the second key first seen between two items of the first.
C11_Witness ==
    /\ call.fn = "group_by" /\ result.done
    /\ call.xs = <<2, 1, 3>>
    /\ call.key_func[2] = call.key_func[3] /\ call.key_func[1] # call.key_func[2]
    /\ Len(result.val.keys) = 2
    /\ result.val.lists = << <<2, 3>>, <<1>> >>

-----------------------------------------------------------------------------
(* Strings, characters and regular expressions *)

(* A str is a sequence of characters; a character is a one-character      *)
(* string, or the name of its code point when it is not ASCII.            *)
AsciiDigits == {"0", "1", "2", "3", "4", "5", "6", "7", "8", "9"}

AsciiLower == {"a", "b", "c", "d", "e", "f", "g", "h", "i", "j", "k", "l", "m",
               "n", "o", "p", "q", "r", "s", "t", "u", "v", "w", "x", "y", "z"}

AsciiUpper == {"A", "B", "C", "D", "E", "F", "G", "H", "I", "J", "K", "L", "M",
               "N", "O", "P", "Q", "R", "S", "T", "U", "V", "W", "X", "Y", "Z"}

AsciiLetters == AsciiLower \cup AsciiUpper

AsciiAlnum == AsciiLetters \cup AsciiDigits

\* ARABIC-INDIC DIGIT FOUR: a decimal digit (category Nd) that is not ASCII.
ArabicFour == "U+0664"

\* SUPERSCRIPT TWO: a digit (category No) that is not a decimal digit.
SuperscriptTwo == "U+00B2"

\* LATIN SMALL LETTER E WITH ACUTE
EAcute == "U+00E9"

\* The characters \d matches and int() accepts.
DecimalChars == AsciiDigits \cup {ArabicFour}

\* The characters of which str.isdigit() holds.
DigitChars == DecimalChars \cup {SuperscriptTwo}

\* The characters \s matches.
WhiteSpace == {" ", "\t", "\n"}

\* int(c) of a decimal character.
IntOf(c) ==
    CASE c = "0" -> 0 [] c = "1" -> 1 [] c = "2" -> 2 [] c = "3" -> 3 [] c = "4" -> 4
      [] c = "5" -> 5 [] c = "6" -> 6 [] c = "7" -> 7 [] c = "8" -> 8 [] c = "9" -> 9
      [] c = ArabicFour -> 4

\* str.isdigit(): not empty and every character a digit.
isdigit(s) == s # <<>> /\ \A i \in 1..Len(s) : s[i] \in DigitChars

\* re.sub('[...]', '', s) with the character class S: s without its characters in S.
re_sub_delete(S, s) == SelectSeq(s, LAMBDA c : c \notin S)

(* Regular expressions: a character class, a sequence, an alternative or  *)
(* a repetition.                                                         *)
RCls(S) == [t |-> "cls", set |-> S]
RChr(c) == RCls({c})
RSeq(rs) == [t |-> "seq", rs |-> rs]
RAlt(rs) == [t |-> "alt", rs |-> rs]
RStar(r) == [t |-> "star", r |-> r]
RPlus(r) == RSeq(<<r, RStar(r)>>)
ROpt(r) == RAlt(<<r, RSeq(<<>>)>>)
\* The characters of the str s one after the other.
RLit(s) == RSeq([i \in 1..Len(s) |-> RChr(s[i])])

RECURSIVE RRep(_, _, _)
\* r{lo,hi}
RRep(r, lo, hi) ==
    IF hi = 0 THEN RSeq(<<>>)
    ELSE IF lo = 0 THEN ROpt(RSeq(<<r, RRep(r, 0, hi - 1)>>))
    ELSE RSeq(<<r, RRep(r, lo - 1, hi - 1)>>)

RECURSIVE Ends(_, _, _)
\* The positions of s at which a match of r that starts at a position in P can end.
Ends(r, s, P) ==
    CASE r.t = "cls" -> {p + 1 : p \in {q \in P : q <= Len(s) /\ s[q] \in r.set}}
      [] r.t = "seq" -> IF r.rs = <<>> THEN P
                        ELSE Ends(RSeq(Tail(r.rs)), s, Ends(Head(r.rs), s, P))
      [] r.t = "alt" -> UNION {Ends(r.rs[i], s, P) : i \in 1..Len(r.rs)}
      [] r.t = "star" -> LET Q == P \cup Ends(r.r, s, P)
                         IN  IF Q = P THEN P ELSE Ends(r, s, Q)

\* bool(re.match('^' r '$', s)): $ matches at the end and before a final newline.
re_match(r, s) ==
    LET E == Ends(r, s, {1})
    IN  \/ Len(s) + 1 \in E
        \/ Len(s) >= 1 /\ s[Len(s)] = "\n" /\ Len(s) \in E

(* Python values: None, a str, an int, or a list (of which only the       *)
(* length matters).                                                       *)
PyNone == [t |-> "none", s |-> <<>>, n |-> 0]
PyStr(s) == [t |-> "str", s |-> s, n |-> 0]
PyInt(n) == [t |-> "int", s |-> <<>>, n |-> n]
PyList(n) == [t |-> "list", s |-> <<>>, n |-> n]

\* bool(v)
Truthy(v) ==
    CASE v.t = "none" -> FALSE
      [] v.t = "str" -> v.s # <<>>
      [] v.t = "int" -> v.n # 0
      [] v.t = "list" -> v.n # 0

\* How a call ended: it returned val, or it raised the exception named by raised.
Returned(v) == [done |-> TRUE, raised |-> "", val |-> v]
Raised(e) == [done |-> TRUE, raised |-> e, val |-> None]

-----------------------------------------------------------------------------
(* Validators *)

\* The longest string of characters appended to a fixed beginning.
MaxTail == 3

\* The longest email address and the longest rest of a URL.
MaxAddr == 6
MaxRest == 4

\* len(cleaned) < 13 or len(cleaned) > 19
MinCardLen == 13
MaxCardLen == 19

RECURSIVE SumSeq(_)
SumSeq(ns) == IF ns = <<>> THEN 0 ELSE Head(ns) + SumSeq(Tail(ns))

\* digits[start::-2] for start = -1 or -2: from that position leftwards, every other one.
EveryOtherFromRight(digits, start) ==
    LET first == Len(digits) + 1 + start
        count == IF first < 1 THEN 0 ELSE (first + 1) \div 2
    IN  [k \in 1..count |-> digits[first - 2 * (k - 1)]]

\* A faulty doubling that keeps the doubled value.
luhn_double_plain(digit) == digit * 2

\* doubled - 9 if doubled > 9 else doubled
luhn_double(digit) == IF digit * 2 > 9 THEN digit * 2 - 9 ELSE digit * 2

\* checksum = sum(odd_digits); for digit in even_digits: checksum += ...
luhn_checksum(digits) ==
    LET odd_digits  == EveryOtherFromRight(digits, -1)
        even_digits == EveryOtherFromRight(digits, -2)
    IN  SumSeq(odd_digits)
          + SumSeq([k \in 1..Len(even_digits) |-> luhn_double(even_digits[k])])

is_valid_credit_card(number) ==
    IF ~Truthy(number) \/ number.t # "str" THEN Returned(FALSE)
    ELSE LET cleaned == re_sub_delete(WhiteSpace \cup {"-"}, number.s)
         IN  IF ~isdigit(cleaned) \/ Len(cleaned) < MinCardLen \/ Len(cleaned) > MaxCardLen
             THEN Returned(FALSE)
             ELSE IF \E i \in 1..Len(cleaned) : cleaned[i] \notin DecimalChars
             THEN Raised("ValueError")   \* int(d) of a digit that is not decimal
             ELSE Returned(luhn_checksum([i \in 1..Len(cleaned) |-> IntOf(cleaned[i])]) % 10 = 0)

\* The table of patterns of is_valid_phone.
phone_patterns ==
    [US |-> RSeq(<<ROpt(RLit(<<"+", "1">>)), RCls({"2", "3", "4", "5", "6", "7", "8", "9"}),
                   RRep(RCls(DecimalChars), 9, 9)>>),
     UK |-> RSeq(<<ROpt(RLit(<<"+", "4", "4">>)), RCls(AsciiDigits \ {"0"}),
                   RRep(RCls(DecimalChars), 9, 10)>>),
     DE |-> RSeq(<<ROpt(RLit(<<"+", "4", "9">>)), RCls(AsciiDigits \ {"0"}),
                   RRep(RCls(DecimalChars), 9, 13)>>)]

is_valid_phone(phone, country_code) ==
    IF ~Truthy(phone) \/ phone.t # "str" THEN Returned(FALSE)
    ELSE LET cleaned == re_sub_delete(WhiteSpace \cup {"-", "(", ")", "."}, phone.s)
         IN  IF country_code \notin DOMAIN phone_patterns
             THEN Raised("ValueError")
             ELSE Returned(re_match(phone_patterns[country_code], cleaned))

email_pattern ==
    RSeq(<<RPlus(RCls(AsciiAlnum \cup {".", "_", "%", "+", "-"})), RChr("@"),
           RPlus(RCls(AsciiAlnum \cup {".", "-"})), RChr("."),
           RCls(AsciiLetters), RPlus(RCls(AsciiLetters))>>)

is_valid_email(email) ==
    IF ~Truthy(email) \/ email.t # "str" THEN Returned(FALSE)
    ELSE Returned(re_match(email_pattern, email.s))

\* The characters a str of the model is made of.
Chars ==
    AsciiAlnum \cup WhiteSpace \cup {ArabicFour, SuperscriptTwo, EAcute}
      \cup {"-", "_", ".", ":", "/", "@", "+", "%", "(", ")", "<", ">", "!", "*"}

\* One label of a host name: [a-zA-Z0-9]([a-zA-Z0-9-]*[a-zA-Z0-9])?
url_label ==
    RSeq(<<RCls(AsciiAlnum),
           ROpt(RSeq(<<RStar(RCls(AsciiAlnum \cup {"-"})), RCls(AsciiAlnum)>>))>>)

\* The schemes contain letters only: re.escape leaves them as they are.
url_pattern(allowed_schemes) ==
    RSeq(<<IF allowed_schemes = <<>> THEN RSeq(<<>>)
           ELSE RAlt([i \in 1..Len(allowed_schemes) |-> RLit(allowed_schemes[i])]),
           RLit(<<":", "/", "/">>),
           url_label,
           RStar(RSeq(<<RChr("."), url_label>>)),
           ROpt(RSeq(<<RChr(":"), RPlus(RCls(DecimalChars))>>)),
           ROpt(RSeq(<<RChr("/"), RStar(RCls(Chars \ WhiteSpace))>>))>>)

\* allowed_schemes=None
NoSchemes == [given |-> FALSE, list |-> <<>>]

DefaultSchemes == << <<"h", "t", "t", "p">>, <<"h", "t", "t", "p", "s">>, <<"f", "t", "p">> >>

is_valid_url(url, allowed_schemes) ==
    IF ~Truthy(url) \/ url.t # "str" THEN Returned(FALSE)
    ELSE LET schemes == IF allowed_schemes.given THEN allowed_schemes.list ELSE DefaultSchemes
         IN  Returned(re_match(url_pattern(schemes), url.s))

\* min_val=None or max_val=None
NoLimit == [given |-> FALSE, n |-> 0]

Limit(n) == [given |-> TRUE, n |-> n]

is_in_range(value, min_val, max_val, inclusive) ==
    IF value.t # "int" THEN Returned(FALSE)
    ELSE IF min_val.given /\ inclusive /\ value.n < min_val.n THEN Returned(FALSE)
    ELSE IF min_val.given /\ ~inclusive /\ value.n <= min_val.n THEN Returned(FALSE)
    ELSE IF max_val.given /\ inclusive /\ value.n > max_val.n THEN Returned(FALSE)
    ELSE IF max_val.given /\ ~inclusive /\ value.n >= max_val.n THEN Returned(FALSE)
    ELSE Returned(TRUE)

\* Values that are no str, and the empty str.
OddValues == {PyNone, PyStr(<<>>), PyInt(0), PyInt(5), PyList(0), PyList(2)}

\* Card numbers: a beginning of 0, 12 or 17 digits, in groups or not, and any end.
CardBeginnings ==
    { <<>>,
      <<"4", "5", "3", "2", "0", "1", "5", "1", "1", "2", "8", "3">>,
      <<"4", "5", "3", "2", " ", "0", "1", "5", "1", "-", "1", "2", "8", "3", " ">>,
      <<"4", "5", "3", "2", "0", "1", "5", "1", "1", "2", "8", "3", "0", "3", "6", "6", "0">> }

CardChars == AsciiDigits \cup {" ", "-", "\t", "a", ArabicFour, SuperscriptTwo}

\* The values given as card numbers, with ends of at most n characters.
CardNumbers(n) ==
    OddValues \cup {PyStr(b \o e) : b \in CardBeginnings, e \in SeqsUpTo(CardChars, n)}

PhoneBeginnings ==
    { <<>>,
      <<"2", "1", "2", "5", "5", "5", "1", "2">>,
      <<"(", "2", "1", "2", ")", " ", "5", "5", "5", "-", "1", "2">>,
      <<"+", "1", "2", "1", "2", "5", "5", "5", "1", "2">>,
      <<"+", "4", "4", "7", "9", "1", "1", "1", "2", "3", "4">>,
      <<"+", "4", "9", "3", "0", "1", "2", "3", "4", "5", "6">> }

PhoneChars == {"0", "3", "4", " ", ".", "a", "+", ArabicFour}

PhoneNumbers(n) ==
    OddValues \cup {PyStr(b \o e) : b \in PhoneBeginnings, e \in SeqsUpTo(PhoneChars, n)}

CountryCodes == {"US", "UK", "DE", "FR", "us", ""}

EmailChars == {"a", "Z", "@", ".", "\n"}

Emails(n) == OddValues \cup {PyStr(e) : e \in SeqsUpTo(EmailChars, n)}

UrlBeginnings ==
    { <<>>,
      <<"h", "t", "t", "p", ":", "/", "/">>,
      <<"f", "t", "p", ":", "/", "/", "a">>,
      <<"g", "o", "p", "h", "e", "r", ":", "/", "/", "a">>,
      <<":", "/", "/">> }

UrlChars == {"a", "-", ".", ":", "8", "/", " "}

Urls(n) == OddValues \cup {PyStr(b \o e) : b \in UrlBeginnings, e \in SeqsUpTo(UrlChars, n)}

SchemeLists ==
    {NoSchemes, [given |-> TRUE, list |-> <<>>],
     [given |-> TRUE, list |-> << <<"g", "o", "p", "h", "e", "r">>, <<"f", "t", "p">> >>]}

RangeValues == {PyInt(n) : n \in (-1)..3} \cup {PyNone, PyStr(<<"1">>), PyList(1)}

Limits == {NoLimit} \cup {Limit(n) : n \in 0..2}

ValidatorsInit ==
    /\ NoSet
    /\ \/ \E number \in CardNumbers(MaxTail) :
             call = [fn |-> "is_valid_credit_card", number |-> number]
       \/ \E phone \in PhoneNumbers(MaxTail), cc \in CountryCodes :
             call = [fn |-> "is_valid_phone", phone |-> phone, country_code |-> cc]
       \/ \E email \in Emails(MaxAddr) :
             call = [fn |-> "is_valid_email", email |-> email]
       \/ \E url \in Urls(MaxRest), schemes \in SchemeLists :
             call = [fn |-> "is_valid_url", url |-> url, allowed_schemes |-> schemes]
       \/ \E value \in RangeValues, lo \in Limits, hi \in Limits, inclusive \in BOOLEAN :
             call = [fn |-> "is_in_range", value |-> value, min_val |-> lo,
                     max_val |-> hi, inclusive |-> inclusive]
    /\ result = [done |-> FALSE]
    /\ NoGen
    /\ NoHeap
    /\ NoHttp

CallIsValidCreditCard ==
    /\ call.fn = "is_valid_credit_card" /\ ~result.done
    /\ result' = is_valid_credit_card(call.number)
    /\ UNCHANGED <<heapVars, httpVars, call, setVars, gen>>

CallIsValidPhone ==
    /\ call.fn = "is_valid_phone" /\ ~result.done
    /\ result' = is_valid_phone(call.phone, call.country_code)
    /\ UNCHANGED <<heapVars, httpVars, call, setVars, gen>>

CallIsValidEmail ==
    /\ call.fn = "is_valid_email" /\ ~result.done
    /\ result' = is_valid_email(call.email)
    /\ UNCHANGED <<heapVars, httpVars, call, setVars, gen>>

CallIsValidUrl ==
    /\ call.fn = "is_valid_url" /\ ~result.done
    /\ result' = is_valid_url(call.url, call.allowed_schemes)
    /\ UNCHANGED <<heapVars, httpVars, call, setVars, gen>>

CallIsInRange ==
    /\ call.fn = "is_in_range" /\ ~result.done
    /\ result' = is_in_range(call.value, call.min_val, call.max_val, call.inclusive)
    /\ UNCHANGED <<heapVars, httpVars, call, setVars, gen>>

ValidatorsNext ==
    \/ CallIsValidCreditCard
    \/ CallIsValidPhone
    \/ CallIsValidEmail
    \/ CallIsValidUrl
    \/ CallIsInRange

SpecValidators == ValidatorsInit /\ [][ValidatorsNext]_vars

\* The digit of ds at position k counted from the right, the last digit being at 1.
FromRight(ds, k) == ds[Len(ds) + 1 - k]

\* The Luhn total: digits at odd positions from the right unchanged, digits at even
\* positions doubled, less 9 when the doubled value exceeds 9.
LuhnTotal(ds) ==
    SumSeq([k \in 1..Len(ds) |->
              IF k % 2 = 1 THEN FromRight(ds, k)
              ELSE IF 2 * FromRight(ds, k) > 9 THEN 2 * FromRight(ds, k) - 9
              ELSE 2 * FromRight(ds, k)])

\* s, a str without spaces and dashes, is a valid card number.
LuhnValid(s) ==
    /\ \A i \in 1..Len(s) : s[i] \in DecimalChars
    /\ Len(s) >= MinCardLen /\ Len(s) <= MaxCardLen
    /\ LuhnTotal([i \in 1..Len(s) |-> IntOf(s[i])]) % 10 = 0

(* C12: is_valid_credit_card(s) returns true exactly when s without its    *)
(* spaces and dashes consists of digits only, has 13 to 19 characters and  *)
(* a Luhn total of 0 mod 10; with a non-digit left after stripping, or a   *)
(* length outside [13,19], it returns false.                               *)
C12_CreditCardLuhn ==
    (call.fn = "is_valid_credit_card" /\ result.done /\ call.number.t = "str") =>
        /\ result.raised = ""
        /\ result.val = LuhnValid(re_sub_delete({" ", "-"}, call.number.s))

(* C13: is_valid_email, is_valid_url, is_valid_credit_card and is_in_range *)
(* return true or false for every input and never raise; only is_valid_phone *)
(* with an unsupported country code may raise.                             *)
C13_ValidatorsNeverRaise ==
    result.done =>
        \/ result.raised = "" /\ result.val \in BOOLEAN
        \/ call.fn = "is_valid_phone" /\ call.country_code \notin {"US", "UK", "DE"}

(* C14: is_valid_phone(phone, country_code) raises ValueError whenever     *)
(* country_code is not US, UK or DE, for every phone; it never returns a   *)
(* boolean then.                                                           *)
C14_UnsupportedCountryRaises ==
    (call.fn = "is_valid_phone" /\ result.done /\ call.country_code \notin {"US", "UK", "DE"}) =>
        result.raised = "ValueError"

-----------------------------------------------------------------------------
(* String functions: truncate, mask_sensitive, slugify *)

\* The longest text given to truncate and mask_sensitive, and to slugify.
MaxText == 5
MaxSlug == 4

\* text[:k]
py_slice_to(text, k) ==
    SubSeq(text, 1, IF k < 0 THEN Max(Len(text) + k, 0) ELSE Min(k, Len(text)))

\* text[k:]
py_slice_from(text, k) ==
    SubSeq(text, (IF k < 0 THEN Max(Len(text) + k, 0) ELSE Min(k, Len(text))) + 1, Len(text))

\* s * n
Repeat(s, n) ==
    LET F[k \in 0..Max(n, 0)] == IF k = 0 THEN <<>> ELSE F[k - 1] \o s
    IN  F[Max(n, 0)]

\* A faulty length that leaves no room for the suffix.
truncated_length_full(max_length, suffix) == max_length

\* truncated_length = max_length - len(suffix)
truncated_length(max_length, suffix) == max_length - Len(suffix)

truncate(text, max_length, suffix) ==
    IF text = <<>> THEN Returned(<<>>)
    ELSE IF max_length <= Len(suffix) THEN Raised("ValueError")
    ELSE IF Len(text) <= max_length THEN Returned(text)
    ELSE Returned(py_slice_to(text, truncated_length(max_length, suffix)) \o suffix)

\* len(text) <= 3: very short strings are not masked
ShortText == 3

mask_sensitive(text, visible_chars, mask_char) ==
    IF text = <<>> THEN Returned(<<>>)
    ELSE IF Len(text) <= ShortText \/ visible_chars >= Len(text) THEN Returned(text)
    ELSE LET masked_length == Len(text) - visible_chars
         IN  Returned(Repeat(mask_char, masked_length) \o py_slice_from(text, -visible_chars))

\* unicodedata.normalize('NFKD', c).encode('ascii', 'ignore').decode('ascii') of one
\* character: the ASCII characters of its compatibility decomposition.
ascii_fold(c) ==
    CASE c = EAcute -> <<"e">>            \* e followed by COMBINING ACUTE ACCENT
      [] c = SuperscriptTwo -> <<"2">>    \* compatibility decomposition: DIGIT TWO
      [] c = ArabicFour -> <<>>           \* no decomposition, not ASCII
      [] OTHER -> <<c>>

RECURSIVE FlatMap(_, _)
\* The results of f on the characters of s, one after the other.
FlatMap(f(_), s) == IF s = <<>> THEN <<>> ELSE f(Head(s)) \o FlatMap(f, Tail(s))

UpperSeq == <<"A", "B", "C", "D", "E", "F", "G", "H", "I", "J", "K", "L", "M",
              "N", "O", "P", "Q", "R", "S", "T", "U", "V", "W", "X", "Y", "Z">>

LowerSeq == <<"a", "b", "c", "d", "e", "f", "g", "h", "i", "j", "k", "l", "m",
              "n", "o", "p", "q", "r", "s", "t", "u", "v", "w", "x", "y", "z">>

\* c.lower() of an ASCII character
lower_char(c) ==
    IF c \in AsciiUpper THEN LowerSeq[CHOOSE i \in 1..Len(UpperSeq) : UpperSeq[i] = c] ELSE c

\* text.lower() of an ASCII str
lower(text) == [i \in 1..Len(text) |-> lower_char(text[i])]

RECURSIVE re_sub_from(_, _, _, _)
\* re.sub(r, repl, s) from position p on, for an r that matches no empty string and
\* whose repetitions are greedy: the leftmost match, taken as long as possible.
re_sub_from(r, repl, s, p) ==
    IF p > Len(s) THEN <<>>
    ELSE LET E == Ends(r, s, {p}) \ {p}
         IN  IF E = {} THEN <<s[p]>> \o re_sub_from(r, repl, s, p + 1)
             ELSE repl \o re_sub_from(r, repl, s, CHOOSE e \in E : \A d \in E : d <= e)

re_sub(r, repl, s) == re_sub_from(r, repl, s, 1)

\* A faulty strip that trims nothing.
strip_nothing(text, chars) == text

\* text.strip(chars): without the leading and trailing characters that are in chars.
strip(text, chars) ==
    LET keep == {i \in 1..Len(text) : text[i] \notin Range(chars)}
    IN  IF keep = {} THEN <<>>
        ELSE SubSeq(text, CHOOSE i \in keep : \A j \in keep : i <= j,
                          CHOOSE i \in keep : \A j \in keep : j <= i)

\* f'{re.escape(separator)}+': the separator with its last character repeated.
separator_runs(separator) ==
    RSeq(<<RLit(SubSeq(separator, 1, Len(separator) - 1)),
           RPlus(RChr(separator[Len(separator)]))>>)

slugify(text, separator, lowercase) ==
    IF text = <<>> THEN Returned(<<>>)
    ELSE LET folded   == FlatMap(ascii_fold, text)
             cased    == IF lowercase THEN lower(folded) ELSE folded
             replaced == re_sub(RPlus(RCls(Chars \ AsciiAlnum)), separator, cased)
         IN  IF separator = <<>>
             THEN Raised("re.error")     \* the pattern '+': nothing to repeat
             ELSE Returned(strip(re_sub(separator_runs(separator), separator, replaced),
                                 separator))

TruncateChars == {"a", "b", " "}

Suffixes == {<<>>, <<".">>, <<".", ".">>, <<".", ".", ".">>}

MaskChars == {"a", "b", "*"}

MaskStrings == {<<"*">>, <<"#">>, <<>>, <<"x", "x">>}

SlugChars == {"a", "B", "1", " ", "-", "_", EAcute}

Separators == {<<"-">>, <<"_">>, <<"-", "-">>, <<>>}

StringsInit ==
    /\ NoSet
    /\ \/ \E text \in SeqsUpTo(TruncateChars, MaxText), max_length \in 0..(MaxText + 1),
             suffix \in Suffixes :
             call = [fn |-> "truncate", text |-> text, max_length |-> max_length,
                     suffix |-> suffix]
       \/ \E text \in SeqsUpTo(MaskChars, MaxText), visible_chars \in (-2)..(MaxText + 1),
             mask_char \in MaskStrings :
             call = [fn |-> "mask_sensitive", text |-> text,
                     visible_chars |-> visible_chars, mask_char |-> mask_char]
       \/ \E text \in SeqsUpTo(SlugChars, MaxSlug), separator \in Separators,
             lowercase \in BOOLEAN :
             call = [fn |-> "slugify", text |-> text, separator |-> separator,
                     lowercase |-> lowercase]
    /\ result = [done |-> FALSE]
    /\ NoGen
    /\ NoHeap
    /\ NoHttp

CallTruncate ==
    /\ call.fn = "truncate" /\ ~result.done
    /\ result' = truncate(call.text, call.max_length, call.suffix)
    /\ UNCHANGED <<heapVars, httpVars, call, setVars, gen>>

CallMaskSensitive ==
    /\ call.fn = "mask_sensitive" /\ ~result.done
    /\ result' = mask_sensitive(call.text, call.visible_chars, call.mask_char)
    /\ UNCHANGED <<heapVars, httpVars, call, setVars, gen>>

CallSlugify ==
    /\ call.fn = "slugify" /\ ~result.done
    /\ result' = slugify(call.text, call.separator, call.lowercase)
    /\ UNCHANGED <<heapVars, httpVars, call, setVars, gen>>

StringsNext == CallTruncate \/ CallMaskSensitive \/ CallSlugify

SpecStrings == StringsInit /\ [][StringsNext]_vars

(* C15: truncate(text, max_length, suffix) raises ValueError whenever      *)
(* max_length <= len(suffix), for every text, the empty one included; it   *)
(* never returns a value then.                                             *)
C15_TruncateRaises ==
    (call.fn = "truncate" /\ result.done /\ call.max_length <= Len(call.suffix)) =>
        result.raised = "ValueError"

LastChars(text, k) == SubSeq(text, Len(text) - k + 1, Len(text))

(* C17: for every text and every integer visible_chars, mask_sensitive     *)
(* returns text unchanged if len(text) <= 3 or visible_chars >= len(text); *)
(* otherwise mask_char repeated len(text) - visible_chars times followed   *)
(* by exactly the last visible_chars characters of text, so that with a    *)
(* one-character mask_char the output is as long as text and shows at most *)
(* visible_chars of its characters.                                        *)
C17_MaskHidesAllButLast ==
    (call.fn = "mask_sensitive" /\ result.done) =>
        /\ result.raised = ""
        /\ IF Len(call.text) <= 3 \/ call.visible_chars >= Len(call.text)
           THEN result.val = call.text
           ELSE /\ result.val = Repeat(call.mask_char, Len(call.text) - call.visible_chars)
                                  \o LastChars(call.text, call.visible_chars)
                /\ Len(call.mask_char) = 1 => Len(result.val) = Len(call.text)

\* The ASCII characters of the model.
AsciiChars == Chars \ {EAcute, ArabicFour, SuperscriptTwo}

\* The characters of s that are ASCII letters or digits, in order.
Alnums(s) == SelectSeq(s, LAMBDA c : c \in AsciiAlnum)

(* C18: for an ASCII text and the separator '-', slugify(text) holds only  *)
(* ASCII letters, digits and '-', no two adjacent '-', no '-' at its       *)
(* beginning or end and, with lowercase, no uppercase letter; the letters  *)
(* and digits of the text appear in it in their order (lowercased when     *)
(* lowercase is set).                                                      *)
C18_SlugShape ==
    (/\ call.fn = "slugify" /\ result.done
     /\ call.separator = <<"-">>
     /\ \A i \in 1..Len(call.text) : call.text[i] \in AsciiChars) =>
        /\ result.raised = ""
        /\ LET out == result.val
           IN  /\ \A i \in 1..Len(out) : out[i] \in AsciiAlnum \cup {"-"}
               /\ \A i \in 1..(Len(out) - 1) : ~(out[i] = "-" /\ out[i + 1] = "-")
               /\ out # <<>> => out[1] # "-" /\ out[Len(out)] # "-"
               /\ call.lowercase => \A i \in 1..Len(out) : out[i] \notin AsciiUpper
               /\ Alnums(out) = IF call.lowercase THEN lower(Alnums(call.text))
                                ELSE Alnums(call.text)

\* A text that begins with a separator and has a space between a letter and a digit.
C18_Witness ==
    /\ call.fn = "slugify" /\ result.done
    /\ call.separator = <<"-">> /\ call.lowercase
    /\ call.text = <<"-", "B", " ", "1">>
    /\ result.raised = ""
    /\ result.val = <<"b", "-", "1">>

-----------------------------------------------------------------------------
(* HTTP client *)

\* How many requests are made on one client, and a cap on the urlopen calls of one.
MaxCalls == 2
MaxSends == 2

(* A dict is the sequence of its items [k, v] in insertion order, no key   *)
(* twice. Header names and URLs are strs; header values are opaque.       *)
dict_has(d, k) == \E i \in 1..Len(d) : d[i].k = k

dict_get(d, k) == d[CHOOSE i \in 1..Len(d) : d[i].k = k].v

\* d[k] = v
dict_set(d, k, v) ==
    IF dict_has(d, k)
    THEN [i \in 1..Len(d) |-> IF d[i].k = k THEN [k |-> k, v |-> v] ELSE d[i]]
    ELSE Append(d, [k |-> k, v |-> v])

RECURSIVE dict_update(_, _)
\* {**a, **b}
dict_update(a, b) ==
    IF b = <<>> THEN a ELSE dict_update(dict_set(a, Head(b).k, Head(b).v), Tail(b))

\* d.setdefault(k, v)
setdefault(d, k, v) == IF dict_has(d, k) THEN d ELSE dict_set(d, k, v)

\* An optional argument that was not given (None).
NoDict == [given |-> FALSE, d |-> <<>>]
NoNumber == [given |-> FALSE, n |-> 0]

SomeDict(d) == [given |-> TRUE, d |-> d]
SomeNumber(n) == [given |-> TRUE, n |-> n]

\* c.upper() of an ASCII character
upper_char(c) ==
    IF c \in AsciiLower THEN UpperSeq[CHOOSE i \in 1..Len(LowerSeq) : LowerSeq[i] = c] ELSE c

\* s.upper()
upper(s) == [i \in 1..Len(s) |-> upper_char(s[i])]

\* s.capitalize(): the first character in upper case, the others in lower case.
capitalize(s) == [i \in 1..Len(s) |-> IF i = 1 THEN upper_char(s[i]) ELSE lower_char(s[i])]

\* s.rstrip('/')
rstrip_slash(s) ==
    LET keep == {i \in 1..Len(s) : s[i] # "/"}
    IN  IF keep = {} THEN <<>> ELSE SubSeq(s, 1, CHOOSE i \in keep : \A j \in keep : j <= i)

\* urllib.parse.quote_plus of one character
quote_plus_char(c) ==
    CASE c = " " -> <<"+">>
      [] c = "/" -> <<"%", "2", "F">>
      [] c = "&" -> <<"%", "2", "6">>
      [] c = "=" -> <<"%", "3", "D">>
      [] OTHER -> <<c>>

quote_plus(s) == FlatMap(quote_plus_char, s)

RECURSIVE urlencode(_)
\* urllib.parse.urlencode(params): k=v of every item, joined by &
urlencode(params) ==
    IF params = <<>> THEN <<>>
    ELSE quote_plus(Head(params).k) \o <<"=">> \o quote_plus(Head(params).v)
           \o (IF Tail(params) = <<>> THEN <<>> ELSE <<"&">> \o urlencode(Tail(params)))

\* url = f"{self.base_url}{path}" if self.base_url else path, and the query string
build_url(base_url, path, params) ==
    LET url == IF base_url # <<>> THEN base_url \o path ELSE path
    IN  IF params.given /\ params.d # <<>> THEN url \o <<"?">> \o urlencode(params.d) ELSE url

ContentType == <<"C", "o", "n", "t", "e", "n", "t", "-", "T", "y", "p", "e">>

\* A faulty choice of the mapping the Content-Type is added to.
setdefault_target_defaults == "default_headers"

\* request_headers.setdefault(...): the mapping the Content-Type is added to.
setdefault_target == "request_headers"

\* The three header mappings after lines 320-326: self.default_headers, the caller's
\* headers, and request_headers = {**self.default_headers, **(headers or {})}, a new
\* mapping, to which the Content-Type is added by default when there is a body.
request_objects(default_headers, headers, data) ==
    LET objs == [default_headers |-> default_headers,
                 headers         |-> IF headers.given THEN headers.d ELSE <<>>,
                 request_headers |->
                     dict_update(default_headers, IF headers.given THEN headers.d ELSE <<>>)]
    IN  IF data.t \notin {"none", "unserializable"}
        THEN [objs EXCEPT ![setdefault_target] = setdefault(@, ContentType, "application/json")]
        ELSE objs

\* request_headers as it is handed to urllib.request.Request
build_headers(default_headers, headers, data) ==
    request_objects(default_headers, headers, data).request_headers

\* Data: None, a value with its JSON text, or a value json.dumps cannot serialize.
NoData == [t |-> "none", text |-> <<>>]
JsonData(text) == [t |-> "json", text |-> text]
SetData == [t |-> "unserializable", text |-> <<>>]

NoBody == [given |-> FALSE, bytes |-> <<>>]

\* body = json.dumps(data).encode('utf-8') of serializable data
build_body(data) == IF data.t = "none" THEN NoBody ELSE [given |-> TRUE, bytes |-> data.text]

\* urllib.request.Request accepts a URL that begins with a type: [^/:]+ and a colon.
has_url_type(url) ==
    \E i \in 2..Len(url) : url[i] = ":" /\ \A j \in 1..(i - 1) : url[j] \notin {"/", ":"}

RECURSIVE add_headers(_, _)
\* Request.__init__: for key, value in headers.items(): self.add_header(key, value),
\* which stores the value under key.capitalize().
add_headers(stored, headers) ==
    IF headers = <<>> THEN stored
    ELSE add_headers(dict_set(stored, capitalize(Head(headers).k), Head(headers).v),
                     Tail(headers))

NoRequest ==
    [built |-> FALSE, url |-> <<>>, body |-> NoBody, headers |-> <<>>, method |-> <<>>,
     timeout |-> NoNumber]

\* The request HttpClient.request hands to urlopen, with the resolved timeout.
build_request(c, args) ==
    [built   |-> TRUE,
     url     |-> build_url(c.base_url, args.path, args.params),
     body    |-> build_body(args.data),
     headers |-> add_headers(<<>>, build_headers(c.default_headers, args.headers, args.data)),
     method  |-> upper(args.method),
     timeout |-> IF args.timeout.given THEN args.timeout ELSE c.timeout]

\* The exception the building of the request raises, "" when there is none.
build_error(c, args) ==
    IF args.data.t = "unserializable" THEN "TypeError"              \* json.dumps
    ELSE IF ~has_url_type(build_url(c.base_url, args.path, args.params))
    THEN "ValueError"                                               \* unknown url type
    ELSE ""

\* HttpClient(base_url, headers, timeout)
HttpClient(base_url, headers, timeout) ==
    [made |-> TRUE, base_url |-> rstrip_slash(base_url),
     default_headers |-> IF headers.given THEN headers.d ELSE <<>>,
     timeout |-> timeout]

NoResponse == [given |-> FALSE, status_code |-> 0, headers |-> <<>>, body |-> "", url |-> <<>>]

HttpResponse(status_code, headers, body, url) ==
    [given |-> TRUE, status_code |-> status_code, headers |-> headers, body |-> body, url |-> url]

\* HttpResponse.ok: 200 <= self.status_code < 300
ok(response) == 200 <= response.status_code /\ response.status_code < 300

\* Nothing was raised.
NoError == [type |-> "", message |-> "", status_code |-> NoNumber, response |-> NoResponse]

\* HttpError(message, status_code=None, response=None)
HttpError(message, status_code, response) ==
    [type |-> "HttpError", message |-> message, status_code |-> status_code,
     response |-> response]

\* An exception that is no HttpError.
OtherError(type) ==
    [type |-> type, message |-> "", status_code |-> NoNumber, response |-> NoResponse]

\* What urlopen did: nothing yet, a response, or an exception of some kind.
NoEvent == [kind |-> "none", status |-> 0, reason |-> ""]

NoArgs ==
    [method |-> <<>>, path |-> <<>>, data |-> NoData, headers |-> NoDict, params |-> NoDict,
     timeout |-> NoNumber]

\* No HttpClient object.
NoClient == [made |-> FALSE, base_url |-> <<>>, default_headers |-> <<>>, timeout |-> NoNumber]

\* No request is under way; n requests have been made. A request is made via the
\* client or via the module's functions, by request or one of get, post, put, delete;
\* self is the client a module-level function has made for it.
IdleHttp(n) ==
    [pc |-> "idle", calls |-> n, via |-> "none", fn |-> "none", self |-> NoClient,
     args |-> NoArgs, req |-> NoRequest, sends |-> 0,
     event |-> NoEvent, returned |-> NoResponse, raised |-> NoError]

\* The client the request under way runs on.
Self == IF http.via = "module" THEN http.self ELSE client

\* The arguments get, post, put and delete hand to request: the method is pinned,
\* and what the function does not take is left at its default.
convenience_args(fn, a) ==
    CASE fn = "get"    -> [a EXCEPT !.method = <<"G", "E", "T">>, !.data = NoData]
      [] fn = "post"   -> [a EXCEPT !.method = <<"P", "O", "S", "T">>, !.params = NoDict]
      [] fn = "put"    -> [a EXCEPT !.method = <<"P", "U", "T">>, !.params = NoDict]
      [] fn = "delete" -> [a EXCEPT !.method = <<"D", "E", "L", "E", "T", "E">>,
                                    !.data = NoData, !.params = NoDict]
      [] OTHER         -> a

\* A faulty module-level request that runs on the shared _default_client.
module_client_shared(shared, timeout) == shared

\* client = HttpClient(timeout=timeout) of the module-level request
module_client(shared, timeout) == HttpClient(<<>>, NoDict, timeout)

\* timeout: float = 30.0 of the module-level functions
module_timeout(timeout) == IF timeout.given THEN timeout ELSE SomeNumber(30)

\* The except clause of request that catches an exception of the given kind:
\* HTTPError is tried first, then URLError; anything else is not caught.
except_clause_urlerror_first(kind) ==
    CASE kind \in {"HTTPError", "URLError"} -> "URLError"
      [] OTHER -> "none"

except_clause(kind) ==
    CASE kind = "HTTPError" -> "HTTPError"
      [] kind = "URLError" -> "URLError"
      [] OTHER -> "none"

\* A faulty handler that goes back to send the request again.
raise_HttpError_retry(h, e) == [h EXCEPT !.pc = "built"]

\* raise HttpError(...) from e: the call ends, the error reaches the caller.
raise_HttpError(h, e) == [h EXCEPT !.pc = "failed", !.raised = e]

\* What request does with an exception ev of urlopen.
handle(h, ev) ==
    LET caught == [h EXCEPT !.event = ev]
    IN  CASE except_clause(ev.kind) = "HTTPError" ->
               raise_HttpError(caught,
                   HttpError(ev.reason, SomeNumber(ev.status),
                             HttpResponse(ev.status, <<>>, "error body", h.req.url)))
          [] except_clause(ev.kind) = "URLError" ->
               raise_HttpError(caught, HttpError(ev.reason, NoNumber, NoResponse))
          [] OTHER ->
               [caught EXCEPT !.pc = "failed", !.raised = OtherError(ev.reason)]

BaseUrls == {<<>>, <<"h", ":", "/", "/", "x">>, <<"h", ":", "/", "/", "x", "/">>}

Paths == {<<"/", "u">>, <<"h", ":", "/", "/", "x", "/", "u">>}

Methods == {<<"g", "e", "t">>, <<"P", "O", "S", "T">>}

\* Header mappings with the given value: None, {}, and one header of three names.
HeaderArgs(value) ==
    {NoDict, SomeDict(<<>>)}
      \cup {SomeDict(<<[k |-> name, v |-> value]>>) :
              name \in {<<"A">>, ContentType, lower(ContentType)}}

ParamArgs == {NoDict, SomeDict(<<>>), SomeDict(<<[k |-> <<"q">>, v |-> <<"a", " ", "b">>]>>)}

DataArgs == {NoData, JsonData(<<"{", "}">>), JsonData(<<"[", "1", "]">>), SetData}

TimeoutArgs == {NoNumber, SomeNumber(5)}

\* The statuses urlopen returns a response for, and those it raises HTTPError for.
SuccessStatuses == {200, 204}
ErrorStatuses == {304, 404, 500}

HttpInit ==
    /\ NoSet
    /\ call = [fn |-> "none"]
    /\ result = [done |-> FALSE]
    /\ NoGen
    /\ NoHeap
    /\ \E base_url \in BaseUrls, headers \in HeaderArgs("default") :
          client = HttpClient(base_url, headers, SomeNumber(30))
    /\ http = IdleHttp(0)
    /\ default_client = HttpClient(<<>>, NoDict, SomeNumber(30))

Functions == {"request", "get", "post", "put", "delete"}

\* client.request(method, path, data, headers, params, timeout), the module-level
\* request(method, url, ...), or one of their get, post, put, delete is called.
RequestCall ==
    /\ http.pc = "idle" /\ http.calls < MaxCalls
    /\ \E via \in {"client", "module"}, fn \in Functions,
          method \in Methods, path \in Paths, data \in DataArgs,
          headers \in HeaderArgs("per-call"), params \in ParamArgs, timeout \in TimeoutArgs :
          LET a == convenience_args(fn, [method |-> method, path |-> path, data |-> data,
                                         headers |-> headers, params |-> params,
                                         timeout |-> timeout])
          IN  http' = [IdleHttp(http.calls + 1) EXCEPT
                         !.pc = "called",
                         !.via = via,
                         !.fn = fn,
                         !.self = IF via = "module"
                                  THEN module_client(default_client, module_timeout(timeout))
                                  ELSE NoClient,
                         !.args = IF via = "module" THEN [a EXCEPT !.timeout = NoNumber] ELSE a]
    /\ UNCHANGED <<heapVars, callVars, setVars, gen, client, default_client>>

\* The URL, headers, body and Request object are built, or building them raises;
\* the header mappings are left as lines 320-326 leave them.
Build ==
    /\ http.pc = "called"
    /\ LET err  == build_error(Self, http.args)
           objs == request_objects(Self.default_headers, http.args.headers, http.args.data)
           next == IF err = ""
                   THEN [http EXCEPT !.pc = "built", !.req = build_request(Self, http.args)]
                   ELSE [http EXCEPT !.pc = "failed", !.raised = OtherError(err)]
       IN  /\ http' = [next EXCEPT
                          !.args.headers.d = IF http.args.headers.given THEN objs.headers ELSE @,
                          !.self.default_headers =
                              IF http.via = "module" THEN objs.default_headers ELSE @]
           /\ client' = IF http.via = "client"
                         THEN [client EXCEPT !.default_headers = objs.default_headers]
                         ELSE client
    /\ UNCHANGED <<heapVars, callVars, setVars, gen, default_client>>

\* The caller configures the module's _default_client.
ConfigureDefaultClient ==
    /\ http.pc = "idle"
    /\ default_client = HttpClient(<<>>, NoDict, SomeNumber(30))
    /\ default_client' = HttpClient(<<"h", ":", "/", "/", "s">>,
                                    SomeDict(<<[k |-> <<"A">>, v |-> "shared"]>>),
                                    SomeNumber(30))
    /\ UNCHANGED <<heapVars, callVars, setVars, gen, client, http>>

\* urllib.request.urlopen(req, timeout=request_timeout) is called.
Send ==
    /\ http.pc = "built" /\ http.sends < MaxSends
    /\ http' = [http EXCEPT !.pc = "sent", !.sends = @ + 1]
    /\ UNCHANGED <<heapVars, callVars, setVars, gen, client, default_client>>

\* urlopen returns a response, its body is read, and request returns an HttpResponse.
Respond ==
    /\ http.pc = "sent"
    /\ \E status \in SuccessStatuses :
          http' = [http EXCEPT
                     !.pc = "completed",
                     !.event = [kind |-> "response", status |-> status, reason |-> "OK"],
                     !.returned = HttpResponse(status, <<>>, "body", http.req.url)]
    /\ UNCHANGED <<heapVars, callVars, setVars, gen, client, default_client>>

\* urlopen returns a response, and resp.read() raises (a timeout while reading).
ReadFails ==
    /\ http.pc = "sent"
    /\ \E status \in SuccessStatuses :
          http' = [http EXCEPT
                     !.pc = "failed",
                     !.event = [kind |-> "response", status |-> status, reason |-> "OK"],
                     !.raised = OtherError("TimeoutError")]
    /\ UNCHANGED <<heapVars, callVars, setVars, gen, client, default_client>>

\* urlopen raises HTTPError: the server answered with a status outside 200..299.
RaiseHTTPError ==
    /\ http.pc = "sent"
    /\ \E status \in ErrorStatuses :
          http' = handle(http, [kind |-> "HTTPError", status |-> status, reason |-> "reason"])
    /\ UNCHANGED <<heapVars, callVars, setVars, gen, client, default_client>>

\* urlopen raises URLError: no connection, no response.
RaiseURLError ==
    /\ http.pc = "sent"
    /\ http' = handle(http, [kind |-> "URLError", status |-> 0, reason |-> "refused"])
    /\ UNCHANGED <<heapVars, callVars, setVars, gen, client, default_client>>

\* urlopen raises an exception that is no URLError (the connection is closed or
\* times out while the status line is awaited).
RaiseOther ==
    /\ http.pc = "sent"
    /\ \E type \in {"RemoteDisconnected", "TimeoutError"} :
          http' = handle(http, [kind |-> "other", status |-> 0, reason |-> type])
    /\ UNCHANGED <<heapVars, callVars, setVars, gen, client, default_client>>

\* The caller has the outcome; the client is ready for the next request.
Finish ==
    /\ http.pc \in {"completed", "failed"}
    /\ http' = IdleHttp(http.calls)
    /\ UNCHANGED <<heapVars, callVars, setVars, gen, client, default_client>>

HttpNext ==
    \/ RequestCall
    \/ Build
    \/ Send
    \/ Respond
    \/ ReadFails
    \/ RaiseHTTPError
    \/ RaiseURLError
    \/ RaiseOther
    \/ Finish
    \/ ConfigureDefaultClient

SpecHttp == HttpInit /\ [][HttpNext]_vars

\* C19 as stated: every call of request that has ended invoked urlopen exactly
\* once and ended in exactly one outcome.
C19_SentExactlyOnce ==
    http.pc \in {"completed", "failed"} =>
        /\ http.sends = 1
        /\ http.returned.given # (http.raised.type # "")

(* C19, amended: a call of request goes called -> built -> sent ->         *)
(* completed | failed, or fails while the request is built; urlopen is     *)
(* invoked at most once, only with a built request, and exactly once in    *)
(* every call that ends after its request was built; a call that ends has  *)
(* exactly one outcome, a returned HttpResponse or a raised exception.     *)
C19_SentOnceIfBuilt ==
    [][ /\ <<http.pc, http'.pc>> \in
              {<<"idle", "idle">>,      \* between two calls
               <<"idle", "called">>, <<"called", "built">>, <<"called", "failed">>,
               <<"built", "sent">>, <<"sent", "completed">>, <<"sent", "failed">>,
               <<"completed", "idle">>, <<"failed", "idle">>}
        /\ http'.sends <= 1
        /\ http'.sends = IF http'.pc \in {"sent", "completed"} THEN 1
                         ELSE IF http'.pc = "failed" /\ http'.req.built THEN 1
                         ELSE 0
        /\ http'.pc = "completed" => http'.returned.given /\ http'.raised.type = ""
        /\ http'.pc = "failed" => ~http'.returned.given /\ http'.raised.type # ""
        /\ http'.pc \notin {"completed", "failed"} =>
              ~http'.returned.given /\ http'.raised.type = ""
      ]_vars

\* A second request on the client has failed after its one urlopen call.
C19_Witness ==
    /\ http.pc = "failed" /\ http.calls = 2
    /\ http.sends = 1 /\ http.event.kind = "URLError"
    /\ http.raised.type = "HttpError"

(* C20: an HttpError raised by request has one of two shapes: after a      *)
(* non-success status s of the transport it carries status_code = s and a  *)
(* response with status_code = s and ok false; when no response was        *)
(* obtained it carries neither; so it has a response iff it has a status   *)
(* code.                                                                   *)
C20_HttpErrorShapes ==
    (http.pc = "failed" /\ http.event.kind \in {"HTTPError", "URLError"}) =>
        /\ http.raised.type = "HttpError"
        /\ http.raised.response.given <=> http.raised.status_code.given
        /\ http.event.kind = "HTTPError" =>
              /\ http.raised.status_code = SomeNumber(http.event.status)
              /\ http.raised.response.given
              /\ http.raised.response.status_code = http.event.status
              /\ ~ok(http.raised.response)
        /\ http.event.kind = "URLError" =>
              /\ ~http.raised.status_code.given
              /\ ~http.raised.response.given

\* A request that the server answered with 404 has failed.
C20_Witness ==
    /\ http.pc = "failed" /\ http.event.kind = "HTTPError" /\ http.event.status = 404
    /\ http.raised.type = "HttpError"
    /\ http.raised.status_code = SomeNumber(404)
    /\ http.raised.response.given /\ http.raised.response.status_code = 404

(* C21: every failure of the transport in which no HTTP status is          *)
(* obtained (no connection, a timeout while connecting or while the        *)
(* response is read) makes request raise an HttpError that carries only a  *)
(* message; none reaches the caller as an exception of another type.       *)
C21_TransportFailuresWrapped ==
    (http.pc = "failed" /\ http.sends = 1 /\ http.event.kind # "HTTPError") =>
        /\ http.raised.type = "HttpError"
        /\ ~http.raised.status_code.given
        /\ ~http.raised.response.given

\* The mapping d has a header of this name, whatever the letter case.
has_header(d, name) == \E i \in 1..Len(d) : lower(d[i].k) = lower(name)

\* The value d gives to the header of this name, whatever the letter case.
header_value(d, name) == d[CHOOSE i \in 1..Len(d) : lower(d[i].k) = lower(name)].v

\* The per-call headers of the request under way, {} when none were given.
CallHeaders == IF http.args.headers.given THEN http.args.headers.d ELSE <<>>

(* C22: the headers request sends are the union of the client's default    *)
(* headers and the per-call headers: a header only in the defaults is sent *)
(* with the default value, one only per-call with the per-call value, one  *)
(* in both with the per-call value.                                        *)
C22_HeadersMerged ==
    http.req.built =>
        LET sent == http.req.headers
            dflt == Self.default_headers
        IN  /\ \A i \in 1..Len(CallHeaders) :
                  /\ has_header(sent, CallHeaders[i].k)
                  /\ header_value(sent, CallHeaders[i].k) = CallHeaders[i].v
            /\ \A i \in 1..Len(dflt) :
                  ~has_header(CallHeaders, dflt[i].k) =>
                      /\ has_header(sent, dflt[i].k)
                      /\ header_value(sent, dflt[i].k) = dflt[i].v
            /\ \A i \in 1..Len(sent) :
                  \/ has_header(CallHeaders, sent[i].k)
                  \/ has_header(dflt, sent[i].k)
                  \/ lower(sent[i].k) = lower(ContentType)

(* C23: with data, request sends the body as JSON and the header           *)
(* Content-Type: application/json, unless the default or per-call headers  *)
(* set a Content-Type (in whatever letter case), whose value is then the   *)
(* one sent; without data it adds no Content-Type and sends no body.       *)
C23_ContentTypeDefault ==
    http.req.built =>
        LET sent   == http.req.headers
            dflt   == Self.default_headers
            given  == has_header(CallHeaders, ContentType) \/ has_header(dflt, ContentType)
            chosen == IF has_header(CallHeaders, ContentType)
                      THEN header_value(CallHeaders, ContentType)
                      ELSE header_value(dflt, ContentType)
        IN  IF http.args.data.t # "none"
            THEN /\ http.req.body = [given |-> TRUE, bytes |-> http.args.data.text]
                 /\ has_header(sent, ContentType)
                 /\ header_value(sent, ContentType) =
                       IF given THEN chosen ELSE "application/json"
            ELSE /\ ~http.req.body.given
                 /\ has_header(sent, ContentType) <=> given
                 /\ given => header_value(sent, ContentType) = chosen

C26_RequestLeavesObjects ==
    [][ /\ client' = client
        /\ (http.pc # "idle" /\ http'.pc # "idle") =>
              /\ http'.args = http.args
              /\ http'.self = http.self
      ]_vars

\* A second request with data and a per-call header has ended; the Content-Type
\* that was added is in the outgoing headers and in neither mapping of the caller.
C26_Witness ==
    /\ http.pc \in {"completed", "failed"} /\ http.calls = 2 /\ http.via = "client"
    /\ http.req.built /\ http.args.data.t = "json"
    /\ has_header(http.req.headers, ContentType)
    /\ client.default_headers # <<>> /\ ~has_header(client.default_headers, ContentType)
    /\ http.args.headers.given /\ http.args.headers.d # <<>>
    /\ ~has_header(http.args.headers.d, ContentType)

(* C25: an OrderedSet equals another OrderedSet exactly when both iterate  *)
(* over the same elements in the same order, equals a plain set exactly    *)
(* when both hold the same elements, and equals no value of another kind.  *)
C25_Equality ==
    last.op = "eq" =>
        last.ret =
            CASE last.arg.kind = "OrderedSet" ->
                    /\ Len(iter(items)) = Len(iter(last.arg.seq))
                    /\ \A i \in 1..Len(iter(items)) : iter(items)[i] = iter(last.arg.seq)[i]
              [] last.arg.kind = "set" ->
                    \A x \in Elems : (x \in contained) <=> (x \in last.arg.set)
              [] OTHER -> FALSE

\* Compared with an OrderedSet of the same elements in another order: not equal.
C25_Witness ==
    /\ last.op = "eq" /\ last.arg.kind = "OrderedSet"
    /\ Len(items) >= 2
    /\ Range(iter(last.arg.seq)) = contained
    /\ iter(last.arg.seq) # iter(items)
    /\ last.ret = FALSE

-----------------------------------------------------------------------------
(* deep_merge: the returned mapping modified in place *)

RECURSIVE Reach(_, _)
\* The dict objects that can be reached from dict id of heap h: itself and the
\* dicts nested in it at any depth.
Reach(h, id) ==
    {id} \cup UNION {Reach(h, h[id][k].ref) : k \in {kk \in DOMAIN h[id] : h[id][kk].t = "dict"}}

\* The value a caller stores into the result.
NewValue == MInt(9)

\* The number of modifications made after a call.
MaxStores == 1

\* The number of entries of heap h that hold NewValue.
Stored(h) ==
    Cardinality({<<id, k>> \in (1..Len(h)) \X Keys : k \in DOMAIN h[id] /\ h[id][k] = NewValue})

\* d[key] = NewValue on the returned mapping or on a mapping nested in it.
ModifyResult ==
    /\ call.fn = "deep_merge" /\ result.done
    /\ Stored(heap) < MaxStores
    /\ \E id \in Reach(heap, result.val) : \E key \in Keys :
          /\ heap' = [heap EXCEPT ![id] = Put(@, key, NewValue)]
          /\ heap' # heap
    /\ UNCHANGED <<heap0, result, call, setVars, gen, httpVars>>

MergeModifyNext ==
    \/ CallDeepMerge
    \/ ModifyResult

SpecMergeModify == MergeInit /\ [][MergeModifyNext]_vars

(* C27: the mapping returned by deep_merge(a, b) is independent of a and   *)
(* b: after the call, whatever is stored into the result or into a mapping *)
(* nested in it, a and b and every mapping nested in them hold what they   *)
(* held when the call was made.                                            *)
C27_ResultIndependent ==
    (call.fn = "deep_merge" /\ result.done) =>
        \A id \in Reach(heap0, call.dict1) \cup Reach(heap0, call.dict2) :
            heap[id] = heap0[id]

-----------------------------------------------------------------------------
(* is_valid_credit_card on a digit string and on the same string with one *)
(* digit replaced *)

\* The number of digits that vary at the end of a card number.
MaxCheckDigits == 2

\* Digit strings of 11, 14 and 17 digits, to which the varying digits are added.
LuhnBeginnings ==
    { <<"7", "9", "9", "2", "7", "3", "9", "8", "7", "1", "0">>,
      <<"4", "5", "3", "2", "0", "1", "5", "1", "1", "2", "8", "3", "0", "3">>,
      <<"4", "5", "3", "2", "0", "1", "5", "1", "1", "2", "8", "3", "0", "3", "6", "6", "0">> }

LuhnEndChars == {"0", "1", "5", "8", ArabicFour}

\* s with the character at position pos replaced by d.
ReplaceAt(s, pos, d) == [s EXCEPT ![pos] = d]

\* A digit string, a position in it and a digit of another value for that position.
LuhnInit ==
    /\ NoSet
    /\ NoGen
    /\ NoHeap
    /\ NoHttp
    /\ result = [done |-> FALSE]
    /\ \E b \in LuhnBeginnings, e \in SeqsUpTo(LuhnEndChars, MaxCheckDigits) :
          \E pos \in 1..Len(b \o e), d \in DecimalChars :
              /\ IntOf(d) # IntOf((b \o e)[pos])
              /\ call = [fn |-> "single_digit_error", number |-> PyStr(b \o e),
                         pos |-> pos, digit |-> d,
                         other |-> PyStr(ReplaceAt(b \o e, pos, d))]

\* is_valid_credit_card(number), then is_valid_credit_card(other)
CallOnBoth ==
    /\ call.fn = "single_digit_error" /\ ~result.done
    /\ result' = [done |-> TRUE,
                  number |-> is_valid_credit_card(call.number),
                  other |-> is_valid_credit_card(call.other)]
    /\ UNCHANGED <<heapVars, httpVars, call, setVars, gen>>

LuhnNext == CallOnBoth

SpecLuhn == LuhnInit /\ [][LuhnNext]_vars

(* C28: the Luhn check of is_valid_credit_card detects every single-digit  *)
(* error: when a digit string of 13 to 19 digits is accepted, the string   *)
(* with the digit at any one position replaced by a different digit is     *)
(* rejected.                                                               *)
C28_SingleDigitErrorDetected ==
    (call.fn = "single_digit_error" /\ result.done /\ result.number = Returned(TRUE)) =>
        result.other = Returned(FALSE)

\* An accepted number of 19 digits; the digit next to the last one, which the
\* check doubles, is a 0 and is replaced by 9.
C28_Witness ==
    /\ call.fn = "single_digit_error" /\ result.done
    /\ result.number = Returned(TRUE) /\ result.other = Returned(FALSE)
    /\ Len(call.number.s) = MaxCardLen
    /\ call.pos = MaxCardLen - 1
    /\ call.number.s[call.pos] = "0" /\ call.digit = "9"

-----------------------------------------------------------------------------
(* strip_html *)

\* The characters of the texts given to strip_html.
HtmlChars ==
    {"&", ";", "<", ">", "#", "3", "9", "\"", "'", " ", "x",
     "a", "b", "g", "l", "m", "n", "o", "p", "q", "s", "t", "u"}

\* <[^>]+>
tag_pattern == RSeq(<<RChr("<"), RPlus(RCls(HtmlChars \ {">"})), RChr(">")>>)

\* The table of entities, in the order in which the dict yields them.
entities ==
    << [entity |-> <<"&", "l", "t", ";">>, char |-> "<"],
       [entity |-> <<"&", "g", "t", ";">>, char |-> ">"],
       [entity |-> <<"&", "a", "m", "p", ";">>, char |-> "&"],
       [entity |-> <<"&", "q", "u", "o", "t", ";">>, char |-> "\""],
       [entity |-> <<"&", "#", "3", "9", ";">>, char |-> "'"],
       [entity |-> <<"&", "a", "p", "o", "s", ";">>, char |-> "'"],
       [entity |-> <<"&", "n", "b", "s", "p", ";">>, char |-> " "] >>

\* old stands in text at position p.
StandsAt(text, old, p) ==
    /\ p + Len(old) - 1 <= Len(text)
    /\ SubSeq(text, p, p + Len(old) - 1) = old

RECURSIVE str_replace_from(_, _, _, _)
str_replace_from(text, old, new, p) ==
    IF p > Len(text) THEN <<>>
    ELSE IF StandsAt(text, old, p)
         THEN new \o str_replace_from(text, old, new, p + Len(old))
         ELSE <<text[p]>> \o str_replace_from(text, old, new, p + 1)

\* text.replace(old, new) for a non-empty old: every occurrence, found from left to right.
str_replace(text, old, new) == str_replace_from(text, old, new, 1)

RECURSIVE replace_each(_, _)
\* for entity, char in table: text = text.replace(entity, char)
replace_each(text, table) ==
    IF table = <<>> THEN text
    ELSE replace_each(str_replace(text, Head(table).entity, <<Head(table).char>>), Tail(table))

strip_html(html) ==
    IF html = <<>> THEN Returned(<<>>)
    ELSE Returned(replace_each(re_sub(tag_pattern, <<>>, html), entities))

\* The number of pieces a text is made of.
MaxPieces == 3

HtmlPieces ==
    {entities[i].entity : i \in 1..Len(entities)}
    \cup { <<"&">>, <<"l", "t", ";">>, <<"q", "u", "o", "t", ";">>, <<"<", "b", ">">>,
           <<">">>, <<"x">> }

StripHtmlInit ==
    /\ NoSet
    /\ NoGen
    /\ NoHeap
    /\ NoHttp
    /\ result = [done |-> FALSE]
    /\ \E ps \in SeqsUpTo(HtmlPieces, MaxPieces) :
          call = [fn |-> "strip_html", html |-> Concat(ps)]

CallStripHtml ==
    /\ call.fn = "strip_html" /\ ~result.done
    /\ result' = strip_html(call.html)
    /\ UNCHANGED <<heapVars, httpVars, call, setVars, gen>>

StripHtmlNext == CallStripHtml

SpecStripHtml == StripHtmlInit /\ [][StripHtmlNext]_vars

RECURSIVE DecodeOnceFrom(_, _)
\* The text from position p on with the entities replaced simultaneously, from
\* left to right: a character that a replacement produced is not read again.
DecodeOnceFrom(text, p) ==
    IF p > Len(text) THEN <<>>
    ELSE LET found == {i \in 1..Len(entities) : StandsAt(text, entities[i].entity, p)}
         IN  IF found = {} THEN <<text[p]>> \o DecodeOnceFrom(text, p + 1)
             ELSE LET i == CHOOSE j \in found : TRUE
                  IN  <<entities[i].char>> \o DecodeOnceFrom(text, p + Len(entities[i].entity))

(* C29: strip_html decodes entities one level only: its result is the text *)
(* without its tags in which the 7 entities are replaced simultaneously,   *)
(* from left to right; a character that came from one entity is never      *)
(* joined with the text after it and decoded again.                        *)
C29_DecodedOnce ==
    (call.fn = "strip_html" /\ result.done) =>
        result.val = DecodeOnceFrom(re_sub(tag_pattern, <<>>, call.html), 1)

-----------------------------------------------------------------------------
(* EnumerableList: first, last, reduce *)

\* _MISSING = object(): the value that stands for an argument not given.
_MISSING == [t |-> "missing", s |-> <<>>, n |-> 0]

\* The functions a caller hands to reduce; both tell the order of their calls.
ReduceFuncs == {"double_add", "subtract"}

\* func(acc, item)
apply(func, acc, item) ==
    IF func = "double_add" THEN PyInt((2 * acc.n + item.n + 1) % 8)
    ELSE PyInt((acc.n - item.n) % 8)

\* A faulty first that takes a default of None for no default.
EnumerableList_first_noneIsMissing(_items, default) ==
    IF _items # <<>> THEN Returned(_items[1])
    ELSE IF default \in {_MISSING, PyNone} THEN Raised("ValueError")
    ELSE Returned(default)

EnumerableList_first(_items, default) ==
    IF _items # <<>> THEN Returned(_items[1])
    ELSE IF default = _MISSING THEN Raised("ValueError")
    ELSE Returned(default)

EnumerableList_last(_items, default) ==
    IF _items # <<>> THEN Returned(_items[Len(_items)])
    ELSE IF default = _MISSING THEN Raised("ValueError")
    ELSE Returned(default)

RECURSIVE reduce_loop(_, _, _, _)
\* for item in iterator: acc = func(acc, item); the calls of func are recorded.
reduce_loop(func, acc, rest, calls) ==
    IF rest = <<>> THEN [done |-> TRUE, raised |-> "", val |-> acc, calls |-> calls]
    ELSE reduce_loop(func, apply(func, acc, Head(rest)), Tail(rest),
                     Append(calls, <<acc, Head(rest)>>))

EnumerableList_reduce(_items, func, initial) ==
    IF initial = _MISSING
    THEN IF _items = <<>>
         THEN [done |-> TRUE, raised |-> "ValueError", val |-> None, calls |-> <<>>]
         ELSE reduce_loop(func, Head(_items), Tail(_items), <<>>)
    ELSE reduce_loop(func, initial, _items, <<>>)

\* The elements of the lists, None among them.
ListValues == {PyInt(0), PyInt(1), PyInt(3), PyNone}

\* A default or initial value: not given, None, or a value.
Defaults == {_MISSING, PyNone, PyInt(5)}

EnumerableInit ==
    /\ NoSet
    /\ NoGen
    /\ NoHeap
    /\ NoHttp
    /\ result = [done |-> FALSE]
    /\ \E its \in SeqsUpTo(ListValues, MaxLen), default \in Defaults :
          \/ call = [fn |-> "first", items |-> its, default |-> default, func |-> ""]
          \/ call = [fn |-> "last", items |-> its, default |-> default, func |-> ""]
          \/ \E func \in ReduceFuncs :
                call = [fn |-> "reduce", items |-> its, default |-> default, func |-> func]

CallFirst ==
    /\ call.fn = "first" /\ ~result.done
    /\ result' = EnumerableList_first(call.items, call.default)
    /\ UNCHANGED <<heapVars, httpVars, call, setVars, gen>>

CallLast ==
    /\ call.fn = "last" /\ ~result.done
    /\ result' = EnumerableList_last(call.items, call.default)
    /\ UNCHANGED <<heapVars, httpVars, call, setVars, gen>>

CallReduce ==
    /\ call.fn = "reduce" /\ ~result.done
    /\ result' = EnumerableList_reduce(call.items, call.func, call.default)
    /\ UNCHANGED <<heapVars, httpVars, call, setVars, gen>>

EnumerableNext == CallFirst \/ CallLast \/ CallReduce

SpecEnumerable == EnumerableInit /\ [][EnumerableNext]_vars

RECURSIVE FoldLeft(_, _, _)
\* f(...f(f(start, xs[1]), xs[2])..., xs[n]), defined from the last element.
FoldLeft(func, start, xs) ==
    IF xs = <<>> THEN start
    ELSE apply(func, FoldLeft(func, start, SubSeq(xs, 1, Len(xs) - 1)), xs[Len(xs)])

(* C30: on an empty EnumerableList first(), last() and reduce(f) without   *)
(* default/initial raise ValueError; with a default/initial, None included,*)
(* they return it and reduce never calls f.  On a non-empty list first and *)
(* last return the first and the last element whatever the default, and    *)
(* reduce without initial folds f from left to right starting with the     *)
(* first element.                                                          *)
C30_EmptyAndDefaults ==
    (call.fn \in {"first", "last", "reduce"} /\ result.done) =>
        IF call.items = <<>>
        THEN IF call.default = _MISSING
             THEN result.raised = "ValueError"
             ELSE /\ result.raised = ""
                  /\ result.val = call.default
                  /\ call.fn = "reduce" => result.calls = <<>>
        ELSE /\ result.raised = ""
             /\ call.fn = "first" => result.val = call.items[1]
             /\ call.fn = "last" => result.val = call.items[Len(call.items)]
             /\ (call.fn = "reduce" /\ call.default = _MISSING) =>
                   /\ result.val = FoldLeft(call.func, call.items[1], Tail(call.items))
                   /\ Len(result.calls) = Len(call.items) - 1
                   /\ Len(call.items) > 1 => result.calls[1] = <<call.items[1], call.items[2]>>

\* first() of an empty list with the default None returns None.
C30_Witness ==
    /\ call.fn = "first" /\ result.done
    /\ call.items = <<>> /\ call.default = PyNone
    /\ result.raised = "" /\ result.val = PyNone

=============================================================================
